---- MODULE Spec2Model ----
(***************************************************************************)
(* A model of the vec-list crate.                                          *)
(*                                                                         *)
(* Two drafts of the list live side by side in the sources:                *)
(*                                                                         *)
(*  - the pointer draft (lib.rs, node.rs, drain.rs, iter.rs): a VecList    *)
(*    whose head, tail, cache and node links are raw addresses of Nodes    *)
(*    stored in a std Vec.  It is modelled by the variables list, debug,   *)
(*    ret, op, ref, expect and steps and by the specification Spec.  Its   *)
(*    drain, split_off and shrink_to_fit run under the specification       *)
(*    SpecCap, which also records the call before (prior) and the          *)
(*    argument of the call (arg); its append and Drop run under SpecOwn    *)
(*    (variables other and released), its get_node, cached, reserve and    *)
(*    reserve_exact under SpecNode and SpecGet.                            *)
(*                                                                         *)
(*  - the index draft (nodes.rs, iters/, views/): nodes are linked by      *)
(*    slot indices and the list records its ends as Option<(head, tail)>.  *)
(*    It is modelled by the variables il, dr, orig, rng, out, dirs and iop *)
(*    and by the specification SpecIdx.  Its DrainFilter and retain run    *)
(*    under SpecFilter (variables df and pred), its View under SpecView    *)
(*    (variables vw, vpos and vret), its ViewMut under SpecViewMut         *)
(*    (variables vm, vm0, mret, mcalls and il0) and its Iter under         *)
(*    SpecIter (variables it and tret).  SpecFused steps its Drain,        *)
(*    DrainFilter and Iter past their end.                                 *)
(*                                                                         *)
(*  - the buffer of a later draft (raw_vec.rs): a RawVec that keeps its    *)
(*    capacity itself.  It is modelled by the variables rv, rv0 and rcall  *)
(*    and by the specification SpecRaw, over a usize of UsizeBits bits.    *)
(*                                                                         *)
(* Option<T> is modelled as a sequence: <<>> is None and <<x>> is Some(x). *)
(* A raw address is the pair <<block, slot>> of the heap block of the Vec  *)
(* buffer it points into and the slot inside that block (counted from 1).  *)
(***************************************************************************)
EXTENDS Integers, Sequences, FiniteSets, TLC

\* ------------------------------------------------------------------------
\* Bounds of the model
\* ------------------------------------------------------------------------
\* The values stored in the lists.
MaxValue == 2
\* The largest number of slots the Vec of the pointer draft ever holds.
MaxNodes == 3
\* The largest number of elements and of slots of a list of the index draft.
MaxLen == 4
\* The number of calls made on one list of the pointer draft.
MaxOps == 6
\* The number of calls made on one list when ranges and the capacity are
\* among them.
MaxCapOps == 4
\* The number of filtering drains made one after the other on one list.
MaxRounds == 2
\* The number of calls made on one ViewMut.
MaxViewOps == 2
\* The width of usize in the model of RawVec.
UsizeBits == 4
\* The largest list an iterator is stepped past its end on.
MaxFused == 3

Values == 1..MaxValue

None == <<>>
Some(x) == <<x>>

VARIABLES
  list,     \* pointer draft: the VecList (head, tail, len, cache, nodes)
  debug,    \* pointer draft: TRUE for a build with debug assertions
  ret,      \* pointer draft: what the last operation returned
  op,       \* pointer draft: the last operation
  ref,      \* the reference double-ended sequence, driven by the same calls
  expect,   \* what the reference sequence returned for the last operation
  steps     \* the number of calls made so far

avars == <<list, debug, ret, op, ref, expect, steps>>

VARIABLES
  il,       \* index draft: the VecList (nodes, ends, free list, length)
  dr,       \* index draft: the Drain that borrows il, None when there is none
  orig,     \* the chain of il, as <<slot, value>> pairs, when dr was made
  rng,      \* the positions <<a, b>> of orig the range of dr stands for
  out,      \* the values dr has yielded so far
  dirs,     \* the directions dr has been stepped in
  iop       \* index draft: the last operation

ivars == <<il, dr, orig, rng, out, dirs, iop>>

VARIABLES
  prior,    \* pointer draft: the operation before the last one
  arg       \* pointer draft: the arguments of the last operation

cvars == <<prior, arg>>

VARIABLES
  df,       \* index draft: the DrainFilter on il, None when there is none
  pred      \* the filters of the filtering drains and retains made so far

fvars == <<df, pred>>

VARIABLES
  vw,       \* index draft: the View bound to il, None when there is none
  vpos,     \* the position of il the View was asked for
  vret      \* what the last next() or prev() of the View returned

wvars == <<vw, vpos, vret>>

VARIABLES
  vm,       \* index draft: the ViewMut bound to il, None when there is none
  vm0,      \* the ViewMut as it was before the last call on it
  mret,     \* what the last call on the ViewMut returned, for an insert
            \* the value handed to it
  mcalls,   \* the number of calls made on the ViewMut so far
  il0       \* il as it was before the last call on the ViewMut

mvars == <<vm, vm0, mret, mcalls, il0>>

VARIABLES
  it,       \* index draft: the Iter over il, None when there is none
  tret      \* what the last next() or next_back() of the Iter returned

tvars == <<it, tret>>

VARIABLES
  other,    \* pointer draft: a second VecList, the argument of append
  released  \* pointer draft: the values dropped when the list was dropped

ovars == <<other, released>>

VARIABLES
  rv,       \* raw_vec.rs: a RawVec
  rv0,      \* the RawVec as it was before the last call on it
  rcall     \* the last call on the RawVec and its arguments, None at first

rvars == <<rv, rv0, rcall>>

vars == <<avars, ivars, cvars, fvars, wvars, mvars, tvars, ovars, rvars>>

\* ------------------------------------------------------------------------
\* The pointer draft: memory
\* ------------------------------------------------------------------------
\* list.mem is the sequence of heap blocks the Vec buffer has lived in; the
\* last one is the live buffer, the earlier ones have been freed by a
\* reallocation that moved the buffer.  A freed block keeps its last
\* contents: an access through an address into it reads or writes that
\* stale memory.

\* usize values of 2^63 and above are represented by the negative integer
\* congruent to them modulo 2^64 (MaxOps calls never take the counter
\* further than MaxOps away from zero).
wrapping_sub(a, b) == a - b
wrapping_add(a, b) == a + b

\* Vec::len of list.nodes
nodes_len(L) == IF L.mem = <<>> THEN 0 ELSE Len(L.mem[Len(L.mem)])

\* Vec::capacity after growing for one more element (amortised doubling).
GrowCap(cap, used) == IF 2 * cap > used + 1 THEN 2 * cap ELSE used + 1

\* *p
deref(L, p) == L.mem[p[1]][p[2]]

Panic(L) == [L EXCEPT !.panicked = TRUE]

\* Vec::push(node).  A push into a full buffer reallocates it; `moved` says
\* whether the allocator had to move the buffer to a new block.
Vec_push(L, n, moved) ==
  IF nodes_len(L) < L.cap
    THEN [L EXCEPT !.mem[Len(L.mem)] = Append(@, n)]
  ELSE IF L.mem = <<>>
    THEN [L EXCEPT !.mem = << <<n>> >>, !.cap = GrowCap(L.cap, 0)]
  ELSE IF moved
    THEN [L EXCEPT !.mem = Append(@, Append(L.mem[Len(L.mem)], n)),
                   !.cap = GrowCap(L.cap, nodes_len(L))]
    ELSE [L EXCEPT !.mem[Len(L.mem)] = Append(@, n),
                   !.cap = GrowCap(L.cap, nodes_len(L))]

\* ------------------------------------------------------------------------
\* The pointer draft: Node
\* ------------------------------------------------------------------------
\* Node::append(self, next); self is an address, next an Option of one
append(L, self, next) ==
  IF L.panicked THEN L
  ELSE IF debug /\ deref(L, self).next # None THEN Panic(L)
  ELSE IF next # None
    THEN IF debug /\ deref(L, next[1]).prev # None THEN Panic(L)
         ELSE LET L1 == [L EXCEPT !.mem[next[1][1]][next[1][2]].prev = Some(self)]
              IN [L1 EXCEPT !.mem[self[1]][self[2]].next = next]
    ELSE [L EXCEPT !.mem[self[1]][self[2]].next = next]

\* Node::append_to(self, prev)
append_to(L, self, prev) ==
  IF L.panicked THEN L
  ELSE IF debug /\ deref(L, self).prev # None THEN Panic(L)
  ELSE IF prev # None
    THEN IF debug /\ deref(L, prev[1]).next # None THEN Panic(L)
         ELSE LET L1 == [L EXCEPT !.mem[prev[1][1]][prev[1][2]].next = Some(self)]
              IN [L1 EXCEPT !.mem[self[1]][self[2]].prev = prev]
    ELSE [L EXCEPT !.mem[self[1]][self[2]].prev = prev]

\* Node::pop_next(self): the list after the take; the result is the old link
pop_next(L, self) == [L EXCEPT !.mem[self[1]][self[2]].next = None]

\* Node::pop_prev(self)
pop_prev(L, self) == [L EXCEPT !.mem[self[1]][self[2]].prev = None]

\* ------------------------------------------------------------------------
\* The pointer draft: VecList
\* ------------------------------------------------------------------------
\* VecList::new / VecList::with_capacity(capacity)
with_capacity(capacity) ==
  [head |-> None, tail |-> None, len |-> 0, cache |-> None,
   mem |-> IF capacity = 0 THEN <<>> ELSE << <<>> >>,
   cap |-> capacity, panicked |-> FALSE]

\* VecList::new_node taking a new slot of the Vec whatever the cache holds.
new_node_always_grows(L, value, moved) ==
  LET L1 == Vec_push(L, [prev |-> None, next |-> None, value |-> value],
                     moved)
  IN [st |-> L1, node |-> <<Len(L1.mem), nodes_len(L1)>>]

\* VecList::new_node(value): the list afterwards and the address of the node
new_node(L, value, moved) ==
  IF L.cache # None
    THEN LET new == L.cache[1]
             L1 == [L EXCEPT !.cache = None,
                             !.mem[new[1]][new[2]].value = value]
             nxt == deref(L1, new).next
         IN [st |-> [pop_next(L1, new) EXCEPT !.cache = nxt], node |-> new]
    ELSE LET L1 == Vec_push(L, [prev |-> None, next |-> None, value |-> value],
                            moved)
         IN [st |-> L1, node |-> <<Len(L1.mem), nodes_len(L1)>>]

\* self.len += 1 (checked in a debug build, wrapping otherwise)
len_inc(L) ==
  IF L.panicked THEN L
  ELSE IF debug /\ L.len = -1 THEN Panic(L)
  ELSE [L EXCEPT !.len = wrapping_add(L.len, 1)]

\* self.len -= 1 (checked in a debug build, wrapping otherwise)
len_dec(L) ==
  IF L.panicked THEN L
  ELSE IF debug /\ L.len = 0 THEN Panic(L)
  ELSE [L EXCEPT !.len = wrapping_sub(L.len, 1)]

\* VecList::push_front(elt)
push_front(L, elt, moved) ==
  LET r    == new_node(L, elt, moved)
      node == r.st.head
      L1   == [r.st EXCEPT !.head = Some(r.node)]
      L2   == IF node # None
                THEN append_to(L1, node[1], L1.head)
                ELSE [L1 EXCEPT !.tail = L1.head]
  IN len_inc(L2)

\* VecList::push_back(elt)
push_back(L, elt, moved) ==
  LET r    == new_node(L, elt, moved)
      node == r.st.tail
      L1   == [r.st EXCEPT !.tail = Some(r.node)]
      L2   == IF node # None
                THEN append(L1, node[1], L1.tail)
                ELSE [L1 EXCEPT !.head = L1.tail]
  IN len_inc(L2)

\* VecList::pop_front(): the list afterwards and the returned Option
pop_front(L) ==
  LET head == L.head
      L1   == [L EXCEPT !.head = None]
  IN IF head = None THEN [st |-> L1, ret |-> None]
     ELSE LET head_p == head[1]
              L2 == [pop_next(L1, head_p) EXCEPT !.head = deref(L1, head_p).next]
              L3 == append(L2, head_p, L2.cache)
              L4 == IF L3.panicked THEN L3 ELSE len_dec([L3 EXCEPT !.cache = head])
              L5 == IF ~L4.panicked /\ L4.len = 0
                      THEN [L4 EXCEPT !.tail = None] ELSE L4
          IN [st |-> L5, ret |-> Some(deref(L5, head_p).value)]

\* VecList::pop_back()
pop_back(L) ==
  LET tail == L.tail
      L1   == [L EXCEPT !.tail = None]
  IN IF tail = None THEN [st |-> L1, ret |-> None]
     ELSE LET tail_p == tail[1]
              L2 == [pop_prev(L1, tail_p) EXCEPT !.tail = deref(L1, tail_p).prev]
              L3 == append(L2, tail_p, L2.cache)
              L4 == IF L3.panicked THEN L3 ELSE len_dec([L3 EXCEPT !.cache = tail])
              L5 == IF ~L4.panicked /\ L4.len = 0
                      THEN [L4 EXCEPT !.head = None] ELSE L4
          IN [st |-> L5, ret |-> Some(deref(L5, tail_p).value)]

\* VecList::clear(): the cache is forgotten, then the Drain made by
\* drain(..) is dropped at once; Drain::drop runs for_each, whose first call
\* of Drain::next is unimplemented!() and panics before set_len is reached.
clear(L) == Panic([L EXCEPT !.cache = None])

\* VecList::is_empty()
is_empty(L) == L.head = None

\* VecList::len()
len(L) == L.len

\* VecList::front()
front(L) == IF L.head = None THEN None ELSE Some(deref(L, L.head[1]).value)

\* VecList::back()
back(L) == IF L.tail = None THEN None ELSE Some(deref(L, L.tail[1]).value)

\* ------------------------------------------------------------------------
\* The reference double-ended sequence
\* ------------------------------------------------------------------------
RefFront(s) == IF s = <<>> THEN None ELSE Some(s[1])
RefBack(s) == IF s = <<>> THEN None ELSE Some(s[Len(s)])
RefPopFront(s) == IF s = <<>> THEN s ELSE Tail(s)
RefPopBack(s) == IF s = <<>> THEN s ELSE SubSeq(s, 1, Len(s) - 1)

\* ------------------------------------------------------------------------
\* The pointer draft: chains and slots
\* ------------------------------------------------------------------------
\* The number of slots in all blocks: no walk without a cycle is longer.
TotalSlots(L) ==
  LET RECURSIVE sum(_)
      sum(b) == IF b = 0 THEN 0 ELSE Len(L.mem[b]) + sum(b - 1)
  IN sum(Len(L.mem))

\* The Option reached from the Option p by following n next links.
RECURSIVE walk_next(_, _, _)
walk_next(L, p, n) ==
  IF n = 0 \/ p = None THEN p ELSE walk_next(L, deref(L, p[1]).next, n - 1)

\* The Option reached from the Option p by following n prev links.
RECURSIVE walk_prev(_, _, _)
walk_prev(L, p, n) ==
  IF n = 0 \/ p = None THEN p ELSE walk_prev(L, deref(L, p[1]).prev, n - 1)

\* The addresses on the forward chain that starts at the Option p.
chain(L, p) ==
  { walk_next(L, p, n)[1] : n \in { k \in 0..TotalSlots(L) :
                                     walk_next(L, p, k) # None } }

\* The active chain: the nodes reached from head.
Active(L) == chain(L, L.head)

\* The free list: the nodes reached from cache.
Cached(L) == chain(L, L.cache)

\* The slots stored in the backing buffer (index below nodes.len()).
Slots(L) == { <<Len(L.mem), i>> : i \in 1..nodes_len(L) }

\* Every address the list holds or an active or free node links to.
Links(L) ==
  LET opts == {L.head, L.tail, L.cache}
                \cup { deref(L, a).next : a \in Active(L) \cup Cached(L) }
                \cup { deref(L, a).prev : a \in Active(L) \cup Cached(L) }
  IN { o[1] : o \in opts \ {None} }

\* ------------------------------------------------------------------------
\* The index draft: Node
\* ------------------------------------------------------------------------
\* Slot indices count from 0 as in the source: slot i is L.nodes[i + 1].
slot(L, i) == L.nodes[i + 1]

\* Node::new(value)
Node_new(value) == [value |-> value, prev |-> None, next |-> None]

\* Node::disconnect with the next link of the predecessor left as it was.
disconnect_keeps_successor(L, i) ==
  LET self == slot(L, i)
  IN IF self.next # None
       THEN [L EXCEPT !.nodes[self.next[1] + 1].prev = self.prev,
                      !.nodes[i + 1].next = None,
                      !.nodes[i + 1].prev = None]
       ELSE L

\* Node::disconnect(self, list), self being slot i of the list
disconnect(L, i) ==
  LET self == slot(L, i)
      L1 == IF self.prev # None
              THEN [L EXCEPT !.nodes[self.prev[1] + 1].next = self.next]
              ELSE L
  IN IF self.next # None
       THEN [L1 EXCEPT !.nodes[self.next[1] + 1].prev = self.prev,
                       !.nodes[i + 1].next = None,
                       !.nodes[i + 1].prev = None]
       ELSE L1

\* Node::stack_push(self, next), self being slot i of the list
stack_push(L, i, next) == [L EXCEPT !.nodes[i + 1].next = Some(next)]

\* Node::stack_pop(self): the list after the take; the result is the old link
stack_pop(L, i) == [L EXCEPT !.nodes[i + 1].next = None]

\* ------------------------------------------------------------------------
\* The index draft: VecList (the list engine the iterators and views call)
\* ------------------------------------------------------------------------
EmptyList ==
  [nodes |-> <<>>, ends |-> None, cache |-> None, len |-> 0,
   panicked |-> FALSE]

IPanic(L) == [L EXCEPT !.panicked = TRUE]

\* alloc: the free-list head if there is one, otherwise a new slot at the end
\* of the buffer; the list afterwards and the index of the slot
alloc(L, value) ==
  IF L.cache # None
    THEN LET i  == L.cache[1]
             L1 == [stack_pop(L, i) EXCEPT !.cache = slot(L, i).next]
         IN [st |-> [L1 EXCEPT !.nodes[i + 1].value = value,
                               !.len = L.len + 1],
             node |-> i]
    ELSE [st |-> [L EXCEPT !.nodes = Append(@, Node_new(value)),
                           !.len = L.len + 1],
          node |-> Len(L.nodes)]

\* remove_node(node): unlink the slot, put it on the free list and hand back
\* its value
remove_node(L, i) ==
  LET L1 == disconnect(L, i)
      L2 == IF L1.cache # None
              THEN stack_push(L1, i, L1.cache[1])
              ELSE [L1 EXCEPT !.nodes[i + 1].next = None]
  IN [st |-> [L2 EXCEPT !.cache = Some(i), !.len = L.len - 1],
      ret |-> slot(L, i).value]

\* index_of / get_index(position): the slot holding the position-th element,
\* reached from whichever end is closer
RECURSIVE steps_next(_, _, _)
steps_next(L, i, n) ==
  IF n = 0 THEN i ELSE steps_next(L, slot(L, i).next[1], n - 1)

RECURSIVE steps_prev(_, _, _)
steps_prev(L, i, n) ==
  IF n = 0 THEN i ELSE steps_prev(L, slot(L, i).prev[1], n - 1)

get_index(L, position) ==
  LET reverse == L.len - position - 1
  IN IF position < reverse
       THEN steps_next(L, L.ends[1][1], position)
       ELSE steps_prev(L, L.ends[1][2], reverse)

\* push_back(value)
ix_push_back(L, value) ==
  LET r  == alloc(L, value)
      n  == r.node
  IN IF L.ends = None
       THEN [r.st EXCEPT !.nodes[n + 1].prev = None,
                         !.nodes[n + 1].next = None,
                         !.ends = Some(<<n, n>>)]
       ELSE LET t == L.ends[1][2]
            IN [r.st EXCEPT !.nodes[n + 1].prev = Some(t),
                            !.nodes[n + 1].next = None,
                            !.nodes[t + 1].next = Some(n),
                            !.ends = Some(<<L.ends[1][1], n>>)]

\* push_front(value)
ix_push_front(L, value) ==
  LET r  == alloc(L, value)
      n  == r.node
  IN IF L.ends = None
       THEN [r.st EXCEPT !.nodes[n + 1].prev = None,
                         !.nodes[n + 1].next = None,
                         !.ends = Some(<<n, n>>)]
       ELSE LET h == L.ends[1][1]
            IN [r.st EXCEPT !.nodes[n + 1].next = Some(h),
                            !.nodes[n + 1].prev = None,
                            !.nodes[h + 1].prev = Some(n),
                            !.ends = Some(<<n, L.ends[1][2]>>)]

\* The chain of the list from head to tail, as <<slot, value>> pairs.
RECURSIVE chain_from(_, _, _, _)
chain_from(L, i, tail, fuel) ==
  IF fuel = 0 THEN <<>>
  ELSE IF i = tail \/ slot(L, i).next = None
    THEN << <<i, slot(L, i).value>> >>
    ELSE << <<i, slot(L, i).value>> >>
           \o chain_from(L, slot(L, i).next[1], tail, fuel - 1)

Elems(L) ==
  IF L.ends = None THEN <<>>
  ELSE chain_from(L, L.ends[1][1], L.ends[1][2], Len(L.nodes))

\* ------------------------------------------------------------------------
\* The index draft: Drain (iters/drain.rs)
\* ------------------------------------------------------------------------
\* A bound of a range: Included(i), Excluded(i) or Unbounded.
Included(i) == [kind |-> "Included", idx |-> i]
Excluded(i) == [kind |-> "Excluded", idx |-> i]
Unbounded == [kind |-> "Unbounded", idx |-> 0]

\* new_drain(list, range): the list (panicked when an assertion fails) and
\* the ends of the Drain.  `end - 1` with end = 0 overflows: a debug build
\* panics there, a release build wraps to usize::MAX and then fails the
\* assertion end < list.len(); both builds panic.
new_drain(L, lo, hi) ==
  LET start == CASE lo.kind = "Included" -> lo.idx
                 [] lo.kind = "Excluded" -> lo.idx + 1
                 [] OTHER -> 0
      ends  == CASE hi.kind = "Included" -> Some(<<start, hi.idx>>)
                 [] hi.kind = "Excluded" -> Some(<<start, hi.idx - 1>>)
                 [] OTHER -> IF L.len > 0 THEN Some(<<start, L.len - 1>>)
                                          ELSE None
  IN IF ends = None THEN [st |-> L, ends |-> None]
     ELSE IF hi.kind = "Excluded" /\ hi.idx = 0
       THEN [st |-> IPanic(L), ends |-> None]
     ELSE IF ~(ends[1][1] <= ends[1][2])
       THEN [st |-> IPanic(L), ends |-> None]
     ELSE IF ~(ends[1][2] < L.len)
       THEN [st |-> IPanic(L), ends |-> None]
     ELSE [st |-> L,
           ends |-> Some(<<get_index(L, ends[1][1]),
                           get_index(L, ends[1][2])>>)]

\* The patch of list.ends shared by Drain::next and Drain::next_back: the
\* node about to be removed may be the head or the tail of the list.
patch_ends(L, node) ==
  IF L.ends = None THEN L
  ELSE LET l_head == L.ends[1][1]
           l_tail == L.ends[1][2]
       IN IF node = l_head /\ node = l_tail
            THEN [L EXCEPT !.ends = None]
          ELSE IF node = l_head
            THEN [L EXCEPT !.ends =
                    IF slot(L, node).next = None THEN None
                    ELSE Some(<<slot(L, node).next[1], l_tail>>)]
          ELSE IF node = l_tail
            THEN [L EXCEPT !.ends =
                    IF slot(L, node).prev = None THEN None
                    ELSE Some(<<l_head, slot(L, node).prev[1]>>)]
          ELSE L

\* Drain::next with the patch of the head of the list left out.
Drain_next_keeps_head(L, ends) ==
  IF ends = None THEN [st |-> L, ends |-> None, ret |-> None]
  ELSE LET node == ends[1][1]
           tail == ends[1][2]
           e2   == IF node = tail \/ slot(L, node).next = None THEN None
                   ELSE Some(<<slot(L, node).next[1], tail>>)
           r    == remove_node(L, node)
       IN [st |-> r.st, ends |-> e2, ret |-> Some(r.ret)]

\* Drain::next starting over from the ends of the list when the Drain is
\* used up.
Drain_next_starts_over(L, ends) ==
  LET e == IF ends = None THEN L.ends ELSE ends
  IN IF e = None THEN [st |-> L, ends |-> None, ret |-> None]
     ELSE LET node == e[1][1]
              tail == e[1][2]
              L1   == patch_ends(L, node)
              e2   == IF node = tail \/ slot(L1, node).next = None THEN None
                      ELSE Some(<<slot(L1, node).next[1], tail>>)
              r    == remove_node(L1, node)
          IN [st |-> r.st, ends |-> e2, ret |-> Some(r.ret)]

\* Drain::next(): the list and the ends of the Drain afterwards and the
\* returned Option
Drain_next(L, ends) ==
  IF ends = None THEN [st |-> L, ends |-> None, ret |-> None]
  ELSE LET node == ends[1][1]
           tail == ends[1][2]
           L1   == patch_ends(L, node)
           e2   == IF node = tail \/ slot(L1, node).next = None THEN None
                   ELSE Some(<<slot(L1, node).next[1], tail>>)
           r    == remove_node(L1, node)
       IN [st |-> r.st, ends |-> e2, ret |-> Some(r.ret)]

\* Drain::next_back stepping towards the tail instead of the head.
Drain_next_back_forward(L, ends) ==
  IF ends = None THEN [st |-> L, ends |-> None, ret |-> None]
  ELSE LET head == ends[1][1]
           node == ends[1][2]
           L1   == patch_ends(L, head)
           e2   == IF node = head \/ slot(L1, head).next = None THEN None
                   ELSE Some(<<slot(L1, head).next[1], node>>)
           r    == remove_node(L1, head)
       IN [st |-> r.st, ends |-> e2, ret |-> Some(r.ret)]

\* Drain::next_back with the patch of the ends of the list left out.
Drain_next_back_keeps_ends(L, ends) ==
  IF ends = None THEN [st |-> L, ends |-> None, ret |-> None]
  ELSE LET head == ends[1][1]
           node == ends[1][2]
           e2   == IF node = head \/ slot(L, node).prev = None THEN None
                   ELSE Some(<<head, slot(L, node).prev[1]>>)
           r    == remove_node(L, node)
       IN [st |-> r.st, ends |-> e2, ret |-> Some(r.ret)]

\* Drain::next_back()
Drain_next_back(L, ends) ==
  IF ends = None THEN [st |-> L, ends |-> None, ret |-> None]
  ELSE LET head == ends[1][1]
           node == ends[1][2]
           L1   == patch_ends(L, node)
           e2   == IF node = head \/ slot(L1, node).prev = None THEN None
                   ELSE Some(<<head, slot(L1, node).prev[1]>>)
           r    == remove_node(L1, node)
       IN [st |-> r.st, ends |-> e2, ret |-> Some(r.ret)]

\* Drain::drop(): for_each(|_| ()) calls next() until it returns None
RECURSIVE Drain_drop(_, _)
Drain_drop(L, ends) ==
  LET r == Drain_next(L, ends)
  IN IF r.ret = None THEN r.st ELSE Drain_drop(r.st, r.ends)

\* ------------------------------------------------------------------------
\* The index draft: DrainFilter (iters/drain_filter.rs) and retain
\* ------------------------------------------------------------------------
\* The closures handed over as filters: "even" is |x| *x % 2 == 0 and
\* "inc_even" is |i| { *i += 1; *i % 2 == 0 }.
Filters == {"even", "inc_even"}

\* The value the closure leaves behind.
filter_value(f, v) == IF f = "inc_even" THEN v + 1 ELSE v

\* The answer of the closure.
filter_passed(f, v) == filter_value(f, v) % 2 = 0

\* new_drain_filter(list, filter): the ends of the DrainFilter
new_drain_filter(L, f) == L.ends

RECURSIVE DrainFilter_next(_, _, _)

\* DrainFilter::next with the patch of the ends of the list left out.
DrainFilter_next_keeps_ends(L, ends, f) ==
  IF ends = None THEN [st |-> L, ends |-> None, ret |-> None]
  ELSE LET node   == ends[1][1]
           tail   == ends[1][2]
           passed == filter_passed(f, slot(L, node).value)
           L1     == [L EXCEPT !.nodes[node + 1].value = filter_value(f, @)]
           e2     == IF node = tail \/ slot(L1, node).next = None THEN None
                     ELSE Some(<<slot(L1, node).next[1], tail>>)
       IN IF passed
            THEN LET r == remove_node(L1, node)
                 IN [st |-> r.st, ends |-> e2, ret |-> Some(r.ret)]
            ELSE DrainFilter_next(L1, e2, f)

\* DrainFilter::next(): the list and the ends of the DrainFilter afterwards
\* and the returned Option
DrainFilter_next(L, ends, f) ==
  IF ends = None THEN [st |-> L, ends |-> None, ret |-> None]
  ELSE LET node   == ends[1][1]
           tail   == ends[1][2]
           passed == filter_passed(f, slot(L, node).value)
           L1     == [L EXCEPT !.nodes[node + 1].value = filter_value(f, @)]
           L2     == IF passed THEN patch_ends(L1, node) ELSE L1
           e2     == IF node = tail \/ slot(L2, node).next = None THEN None
                     ELSE Some(<<slot(L2, node).next[1], tail>>)
       IN IF passed
            THEN LET r == remove_node(L2, node)
                 IN [st |-> r.st, ends |-> e2, ret |-> Some(r.ret)]
            ELSE DrainFilter_next(L2, e2, f)

RECURSIVE DrainFilter_next_back(_, _, _)

\* DrainFilter::next_back with the write of the closure to the value undone.
DrainFilter_next_back_restores(L, ends, f) ==
  IF ends = None THEN [st |-> L, ends |-> None, ret |-> None]
  ELSE LET head   == ends[1][1]
           node   == ends[1][2]
           passed == filter_passed(f, slot(L, node).value)
           L2     == IF passed THEN patch_ends(L, node) ELSE L
           e2     == IF node = head \/ slot(L2, node).prev = None THEN None
                     ELSE Some(<<head, slot(L2, node).prev[1]>>)
       IN IF passed
            THEN LET r == remove_node(L2, node)
                 IN [st |-> r.st, ends |-> e2,
                     ret |-> Some(filter_value(f, r.ret))]
            ELSE DrainFilter_next_back(L2, e2, f)

\* DrainFilter::next_back()
DrainFilter_next_back(L, ends, f) ==
  IF ends = None THEN [st |-> L, ends |-> None, ret |-> None]
  ELSE LET head   == ends[1][1]
           node   == ends[1][2]
           passed == filter_passed(f, slot(L, node).value)
           L1     == [L EXCEPT !.nodes[node + 1].value = filter_value(f, @)]
           L2     == IF passed THEN patch_ends(L1, node) ELSE L1
           e2     == IF node = head \/ slot(L2, node).prev = None THEN None
                     ELSE Some(<<head, slot(L2, node).prev[1]>>)
       IN IF passed
            THEN LET r == remove_node(L2, node)
                 IN [st |-> r.st, ends |-> e2, ret |-> Some(r.ret)]
            ELSE DrainFilter_next_back(L2, e2, f)

\* drop(DrainFilter): the struct has no Drop impl, nothing runs
DrainFilter_drop(L, ends, f) == L

\* retain(predicate): one pass from head to tail; the successor of a node is
\* read before the node is removed.  The element is kept when the closure
\* answers true.
RECURSIVE retain_from(_, _, _)
retain_from(L, node, f) ==
  IF node = None THEN L
  ELSE LET n    == node[1]
           succ == slot(L, n).next
           keep == filter_passed(f, slot(L, n).value)
           L1   == [L EXCEPT !.nodes[n + 1].value = filter_value(f, @)]
       IN IF keep THEN retain_from(L1, succ, f)
          ELSE retain_from(remove_node(patch_ends(L1, n), n).st, succ, f)

retain(L, f) ==
  IF L.ends = None THEN L ELSE retain_from(L, Some(L.ends[1][1]), f)

\* ------------------------------------------------------------------------
\* The index draft: Iter (iters/iter.rs)
\* ------------------------------------------------------------------------
\* new_iter(list, ends)
new_iter(L, ends) == ends

\* list.iter(): an Iter over the ends of the list
iter(L) == new_iter(L, L.ends)

\* Iter::next going on to the next link whatever the tail of the Iter is.
Iter_next_ignores_tail(L, ends) ==
  IF ends = None THEN [ends |-> None, ret |-> None]
  ELSE LET node == ends[1][1]
           tail == ends[1][2]
       IN [ends |-> IF slot(L, node).next # None
                      THEN Some(<<slot(L, node).next[1], tail>>)
                      ELSE None,
           ret |-> Some(node)]

\* Iter::next(): the ends of the Iter afterwards and the returned Option; a
\* reference &list.nodes[node].value is modelled by the slot index node
Iter_next(L, ends) ==
  IF ends = None THEN [ends |-> None, ret |-> None]
  ELSE LET node == ends[1][1]
           tail == ends[1][2]
       IN [ends |-> IF slot(L, node).next # None /\ node # tail
                      THEN Some(<<slot(L, node).next[1], tail>>)
                      ELSE None,
           ret |-> Some(node)]

\* Iter::next_back()
Iter_next_back(L, ends) ==
  IF ends = None THEN [ends |-> None, ret |-> None]
  ELSE LET head == ends[1][1]
           node == ends[1][2]
       IN [ends |-> IF slot(L, node).prev # None /\ node # head
                      THEN Some(<<head, slot(L, node).prev[1]>>)
                      ELSE None,
           ret |-> Some(node)]

\* ------------------------------------------------------------------------
\* The index draft: View (views/view.rs)
\* ------------------------------------------------------------------------
\* new_view(list, view)
new_view(L, view) == [view |-> view]

\* list.view(index): the list (panicked when the index is out of range) and
\* the View bound to the slot of that position
view(L, index) ==
  IF ~(index < L.len) THEN [st |-> IPanic(L), view |-> None]
  ELSE [st |-> L, view |-> Some(new_view(L, get_index(L, index)))]

\* View::next()
View_next(L, self) ==
  IF slot(L, self.view).next = None THEN None
  ELSE Some(new_view(L, slot(L, self.view).next[1]))

\* View::prev following the next link.
View_prev_follows_next(L, self) ==
  IF slot(L, self.view).next = None THEN None
  ELSE Some(new_view(L, slot(L, self.view).next[1]))

\* View::prev()
View_prev(L, self) ==
  IF slot(L, self.view).prev = None THEN None
  ELSE Some(new_view(L, slot(L, self.view).prev[1]))

\* *view (Deref)
View_deref(L, self) == slot(L, self.view).value

\* ------------------------------------------------------------------------
\* The index draft: ViewMut (views/view_mut.rs)
\* ------------------------------------------------------------------------
\* new_view_mut(list, view)
new_view_mut(L, bound) == [view |-> bound]

\* list.view_mut(index): the list (panicked when the index is out of range)
\* and the ViewMut bound to the slot of that position
view_mut(L, index) ==
  IF ~(index < L.len) THEN [st |-> IPanic(L), view |-> None]
  ELSE [st |-> L, view |-> Some(new_view_mut(L, get_index(L, index)))]

\* Ok(self) / Err(self)
Ok == "Ok"
Err == "Err"

\* ViewMut::next answering Ok without moving the binding.
ViewMut_next_stays(L, self) ==
  IF slot(L, self.view).next # None
    THEN [self |-> self, ret |-> Ok]
    ELSE [self |-> self, ret |-> Err]

\* ViewMut::next(): the ViewMut afterwards and Ok or Err
ViewMut_next(L, self) ==
  IF slot(L, self.view).next # None
    THEN [self |-> [self EXCEPT !.view = slot(L, self.view).next[1]],
          ret |-> Ok]
    ELSE [self |-> self, ret |-> Err]

\* ViewMut::prev()
ViewMut_prev(L, self) ==
  IF slot(L, self.view).prev # None
    THEN [self |-> [self EXCEPT !.view = slot(L, self.view).prev[1]],
          ret |-> Ok]
    ELSE [self |-> self, ret |-> Err]

\* ViewMut::insert_before with the update of the head of the list left out.
ViewMut_insert_before_keeps_head(L, self, value) ==
  LET r  == alloc(L, value)
      nn == r.node
      L1 == [r.st EXCEPT !.nodes[nn + 1].next = Some(self.view)]
      L2 == [L1 EXCEPT !.nodes[nn + 1].prev = slot(L1, self.view).prev,
                       !.nodes[self.view + 1].prev = Some(nn)]
      pv == slot(L2, nn).prev
  IN IF pv # None THEN [L2 EXCEPT !.nodes[pv[1] + 1].next = Some(nn)]
     ELSE L2

\* ViewMut::insert_before with the prev link of the viewed node left as it
\* was.
ViewMut_insert_before_keeps_prev(L, self, value) ==
  LET r  == alloc(L, value)
      nn == r.node
      L1 == [r.st EXCEPT !.nodes[nn + 1].next = Some(self.view)]
      L2 == [L1 EXCEPT !.nodes[nn + 1].prev = slot(L1, self.view).prev]
      pv == slot(L2, nn).prev
      L3 == IF pv # None THEN [L2 EXCEPT !.nodes[pv[1] + 1].next = Some(nn)]
            ELSE L2
  IN IF L3.ends = None THEN IPanic(L3)
     ELSE IF self.view = L3.ends[1][1]
       THEN [L3 EXCEPT !.ends = Some(<<nn, L3.ends[1][2]>>)]
       ELSE L3

\* ViewMut::insert_before(value).  new_node is the alloc of the list; the
\* two expect calls panic on a list without ends.
ViewMut_insert_before(L, self, value) ==
  LET r  == alloc(L, value)
      nn == r.node
      L1 == [r.st EXCEPT !.nodes[nn + 1].next = Some(self.view)]
      L2 == [L1 EXCEPT !.nodes[nn + 1].prev = slot(L1, self.view).prev,
                       !.nodes[self.view + 1].prev = Some(nn)]
      pv == slot(L2, nn).prev
      L3 == IF pv # None THEN [L2 EXCEPT !.nodes[pv[1] + 1].next = Some(nn)]
            ELSE L2
  IN IF L3.ends = None THEN IPanic(L3)
     ELSE IF self.view = L3.ends[1][1]
       THEN [L3 EXCEPT !.ends = Some(<<nn, L3.ends[1][2]>>)]
       ELSE L3

\* ViewMut::insert_after(value)
ViewMut_insert_after(L, self, value) ==
  LET r  == alloc(L, value)
      nn == r.node
      L1 == [r.st EXCEPT !.nodes[nn + 1].prev = Some(self.view)]
      L2 == [L1 EXCEPT !.nodes[nn + 1].next = slot(L1, self.view).next,
                       !.nodes[self.view + 1].next = Some(nn)]
      nx == slot(L2, nn).next
      L3 == IF nx # None THEN [L2 EXCEPT !.nodes[nx[1] + 1].prev = Some(nn)]
            ELSE L2
  IN IF L3.ends = None THEN IPanic(L3)
     ELSE IF self.view = L3.ends[1][2]
       THEN [L3 EXCEPT !.ends = Some(<<L3.ends[1][1], nn>>)]
       ELSE L3

\* ViewMut::pop_before(): the list afterwards and the returned Option.
\* Option<(usize, usize)> is Copy and expect takes it by value, so
\*   list.ends.expect("pop_before: 2").0 = self.view
\* writes the field of a temporary copy: list.ends is left as it was.
ViewMut_pop_before(L, self) ==
  LET prev == slot(L, self.view).prev
  IN IF prev = None THEN [st |-> L, ret |-> None]
     ELSE IF L.ends = None THEN [st |-> IPanic(L), ret |-> None]
     ELSE LET r == remove_node(L, prev[1])
          IN [st |-> r.st, ret |-> Some(r.ret)]

\* ViewMut::pop_after(): the same write to a temporary copy of list.ends
ViewMut_pop_after(L, self) ==
  LET next == slot(L, self.view).next
  IN IF next = None THEN [st |-> L, ret |-> None]
     ELSE IF L.ends = None THEN [st |-> IPanic(L), ret |-> None]
     ELSE LET r == remove_node(L, next[1])
          IN [st |-> r.st, ret |-> Some(r.ret)]

\* ViewMut::delete with the ends of the list left as they were.
ViewMut_delete_keeps_ends(L, self) == remove_node(L, self.view)

\* ViewMut::delete(self): the list afterwards and the returned value
ViewMut_delete(L, self) ==
  LET L1 == IF L.ends = None THEN L
            ELSE LET head == L.ends[1][1]
                     tail == L.ends[1][2]
                 IN IF head = self.view
                      THEN [L EXCEPT !.ends =
                              IF slot(L, self.view).next = None THEN None
                              ELSE Some(<<slot(L, self.view).next[1], tail>>)]
                    ELSE IF tail = self.view
                      THEN [L EXCEPT !.ends =
                              IF slot(L, self.view).prev = None THEN None
                              ELSE Some(<<head, slot(L, self.view).prev[1]>>)]
                    ELSE L
  IN remove_node(L1, self.view)

\* *view_mut (Deref)
ViewMut_deref(L, self) == slot(L, self.view).value

\* ------------------------------------------------------------------------
\* The pointer draft: drain, split_off and shrink_to_fit (lib.rs)
\* ------------------------------------------------------------------------
\* a < b on usize values
usize_lt(a, b) == IF (a < 0) = (b < 0) THEN a < b ELSE b < 0

\* VecList::get_node walking from the head whatever the index.
get_node_from_head(L, index) ==
  IF L.panicked THEN [st |-> L, node |-> None, from |-> None, links |-> 0]
  ELSE IF ~(~is_empty(L) /\ usize_lt(index, len(L)))
    THEN [st |-> Panic(L), node |-> None, from |-> None, links |-> 0]
  ELSE LET node == walk_next(L, L.head, index)
       IN IF node = None
            THEN [st |-> Panic(L), node |-> None, from |-> None, links |-> 0]
            ELSE [st |-> L, node |-> node, from |-> Some("head"),
                  links |-> index]

\* VecList::get_node(index): the list (panicked when the assertion or an
\* expect fails), the address of the node, the end of the list the walk
\* started from and the number of links it followed
get_node(L, index) ==
  IF L.panicked THEN [st |-> L, node |-> None, from |-> None, links |-> 0]
  ELSE IF ~(~is_empty(L) /\ usize_lt(index, len(L)))
    THEN [st |-> Panic(L), node |-> None, from |-> None, links |-> 0]
  ELSE LET reverse == wrapping_sub(wrapping_sub(len(L), index), 1)
           node    == IF usize_lt(index, reverse)
                        THEN walk_next(L, L.head, index)
                        ELSE walk_prev(L, L.tail, reverse)
       IN IF node = None
            THEN [st |-> Panic(L), node |-> None, from |-> None, links |-> 0]
          ELSE IF usize_lt(index, reverse)
            THEN [st |-> L, node |-> node, from |-> Some("head"),
                  links |-> index]
            ELSE [st |-> L, node |-> node, from |-> Some("tail"),
                  links |-> reverse]

\* VecList::drain(range): the list (panicked when panic! or an assertion is
\* reached) and the Drain handed back.  An unbounded end resolves to
\* Some(self.len()).filter(|i| *i == 0).unwrap_or(0), which is 0 whatever
\* the length.
drain(L, lo, hi) ==
  LET head == CASE lo.kind = "Included" -> lo.idx
                [] lo.kind = "Excluded" -> lo.idx + 1
                [] OTHER -> 0
      tail == CASE hi.kind = "Included" -> hi.idx
                [] hi.kind = "Excluded" -> hi.idx - 1
                [] OTHER -> 0
  IN IF hi.kind = "Excluded" /\ hi.idx = 0
       THEN [st |-> Panic(L), ret |-> None]
     ELSE IF ~(head <= tail)
       THEN [st |-> Panic(L), ret |-> None]
     ELSE IF ~(head = 0 \/ usize_lt(head, len(L)))
       THEN [st |-> Panic(L), ret |-> None]
     ELSE IF ~(tail = 0 \/ usize_lt(tail, len(L)))
       THEN [st |-> Panic(L), ret |-> None]
     ELSE IF is_empty(L)
       THEN [st |-> L,
             ret |-> Some([head |-> None, tail |-> None, len |-> 0])]
     ELSE LET h == get_node(L, head)
              t == get_node(h.st, tail)
          IN IF t.st.panicked THEN [st |-> t.st, ret |-> None]
             ELSE [st |-> L,
                   ret |-> Some([head |-> h.node, tail |-> t.node,
                                 len |-> tail - head + 1])]

\* Drain::next / Drain::next_back of drain.rs: unimplemented!()
Drain_unimplemented(L) == Panic(L)

\* VecList::split_off(at).  self.len() - at overflows when at > len: a debug
\* build panics there, a release build asks Vec::with_capacity for the
\* wrapped amount and panics with a capacity overflow.  list.extend then
\* calls next() on the Drain of drain(at..).
split_off(L, at) ==
  LET capacity == wrapping_sub(len(L), at)
  IN IF debug /\ usize_lt(len(L), at) THEN [st |-> Panic(L), ret |-> None]
     ELSE IF capacity < 0 THEN [st |-> Panic(L), ret |-> None]
     ELSE LET d == drain(L, Included(at), Unbounded)
          IN IF d.st.panicked THEN [st |-> d.st, ret |-> None]
             ELSE [st |-> Drain_unimplemented(d.st), ret |-> None]

\* Vec::shrink_to_fit giving back one slot of capacity per call.
shrink_to_fit_by_one(L, moved) ==
  IF L.cap = nodes_len(L) THEN L
  ELSE IF moved /\ nodes_len(L) # 0
    THEN [L EXCEPT !.mem = Append(@, L.mem[Len(L.mem)]), !.cap = L.cap - 1]
    ELSE [L EXCEPT !.cap = L.cap - 1]

\* VecList::shrink_to_fit(): Vec::shrink_to_fit of the nodes.  The buffer is
\* reallocated to hold nodes.len() slots when its capacity is larger;
\* `moved` says whether the allocator had to move it to a new block.
shrink_to_fit(L, moved) ==
  IF L.cap = nodes_len(L) THEN L
  ELSE IF moved /\ nodes_len(L) # 0
    THEN [L EXCEPT !.mem = Append(@, L.mem[Len(L.mem)]),
                   !.cap = nodes_len(L)]
    ELSE [L EXCEPT !.cap = nodes_len(L)]

\* ------------------------------------------------------------------------
\* The pointer draft: append and Drop (lib.rs)
\* ------------------------------------------------------------------------
\* Node::rec_len(self, acc): acc is incremented at every node of the chain
RECURSIVE rec_len(_, _, _)
rec_len(L, self, acc) ==
  IF deref(L, self).next = None THEN acc + 1
  ELSE rec_len(L, deref(L, self).next[1], acc + 1)

\* Node::len(self): rec_len starts from 1, so a chain of k nodes gives k + 1
Node_len(L, self) == rec_len(L, self, 1)

\* VecList::cached()
cached(L) == IF L.cache = None THEN 0 ELSE Node_len(L, L.cache[1])

\* Vec::reserve(additional) of the nodes: nothing when the spare capacity
\* is enough, otherwise the buffer grows to the larger of twice its capacity
\* and len + additional; `moved` says whether the allocator had to move it.
reserve(L, additional, moved) ==
  IF L.cap - nodes_len(L) >= additional THEN L
  ELSE LET required == nodes_len(L) + additional
           new_cap  == IF 2 * L.cap > required THEN 2 * L.cap ELSE required
       IN IF moved /\ nodes_len(L) # 0
            THEN [L EXCEPT !.mem = Append(@, L.mem[Len(L.mem)]),
                           !.cap = new_cap]
          ELSE IF L.mem = <<>>
            THEN [L EXCEPT !.mem = << <<>> >>, !.cap = new_cap]
            ELSE [L EXCEPT !.cap = new_cap]

\* Vec::reserve_exact(additional) of the nodes: nothing when the spare
\* capacity is enough, otherwise the buffer grows to len + additional.
reserve_exact(L, additional, moved) ==
  IF L.cap - nodes_len(L) >= additional THEN L
  ELSE LET new_cap == nodes_len(L) + additional
       IN IF moved /\ nodes_len(L) # 0
            THEN [L EXCEPT !.mem = Append(@, L.mem[Len(L.mem)]),
                           !.cap = new_cap]
          ELSE IF L.mem = <<>>
            THEN [L EXCEPT !.mem = << <<>> >>, !.cap = new_cap]
            ELSE [L EXCEPT !.cap = new_cap]

\* VecList::append(other): self afterwards (panicked when the call panics)
\* and other afterwards.  A free list that runs in a cycle makes rec_len
\* recurse until the stack overflows.  other.len() - self.cached()
\* overflows when cached() is larger: a debug build panics there, a release
\* build asks Vec::reserve for the wrapped amount and panics with a capacity
\* overflow.  The for loop then calls next() on the Drain of other.drain(..).
VecList_append(L, O, moved) ==
  IF L.cache # None /\ walk_next(L, L.cache, TotalSlots(L) + 1) # None
    THEN [st |-> Panic(L), other |-> O]
  ELSE LET additional == wrapping_sub(len(O), cached(L))
       IN IF debug /\ usize_lt(len(O), cached(L))
            THEN [st |-> Panic(L), other |-> O]
          ELSE IF additional < 0 THEN [st |-> Panic(L), other |-> O]
          ELSE LET L1 == reserve(L, additional, moved)
                   d  == drain(O, Unbounded, Unbounded)
               IN IF d.st.panicked THEN [st |-> Panic(L1), other |-> O]
                  ELSE [st |-> Drain_unimplemented(L1), other |-> O]

\* Drop for VecList: self.clear().  The values are ManuallyDrop and only
\* the Drain of clear() would drop them; it panics at its first step, so
\* none is.  The list afterwards and the values that were dropped.
VecList_drop(L) == [st |-> clear(L), released |-> <<>>]

\* ------------------------------------------------------------------------
\* The buffer: RawVec (raw_vec.rs)
\* ------------------------------------------------------------------------
\* usize::max_value() and isize::max_value()
UsizeMax == 2^UsizeBits - 1
IsizeMax == 2^(UsizeBits - 1) - 1

\* a.checked_add(b) on usize
checked_add(a, b) == IF a + b > UsizeMax THEN None ELSE Some(a + b)

\* a.saturating_mul(b) on usize
saturating_mul(a, b) == IF a * b > UsizeMax THEN UsizeMax ELSE a * b

\* Whether Global.alloc_array::<T>(n) and Global.realloc_array(.., n) hand
\* back a buffer: no allocation is larger than isize::max_value() bytes,
\* and T takes at least one byte (for a zero sized T the capacity is
\* usize::max_value() from the start and no call ever allocates).
alloc_array(n) == n <= IsizeMax

\* The RawVec after a panic: the panic comes before any field is written.
RPanic(self) == [self EXCEPT !.panicked = TRUE]

\* RawVec::with_capacity(cap); on a panic there is no RawVec, the record
\* keeps capacity 0.
RawVec_with_capacity(cap) ==
  IF cap = 0 THEN [cap |-> 0, panicked |-> FALSE]
  ELSE IF alloc_array(cap) THEN [cap |-> cap, panicked |-> FALSE]
  ELSE [cap |-> 0, panicked |-> TRUE]

\* RawVec::reserve_exact growing to used_cap + additional.
RawVec_reserve_exact_to_used(self, used_cap, additional) ==
  LET used == checked_add(used_cap, additional)
  IN IF used = None THEN RPanic(self)
     ELSE IF used[1] > self.cap
       THEN IF alloc_array(used[1]) THEN [self EXCEPT !.cap = used[1]]
            ELSE RPanic(self)
     ELSE self

\* RawVec::reserve_exact(used_cap, additional)
RawVec_reserve_exact(self, used_cap, additional) ==
  LET used == checked_add(used_cap, additional)
  IN IF used = None THEN RPanic(self)
     ELSE IF used[1] > self.cap
       THEN LET new_cap == checked_add(self.cap, additional)
            IN IF new_cap = None THEN RPanic(self)
               ELSE IF alloc_array(new_cap[1])
                 THEN [self EXCEPT !.cap = new_cap[1]]
               ELSE RPanic(self)
     ELSE self

\* RawVec::reserve(used_cap, additional)
RawVec_reserve(self, used_cap, additional) ==
  LET used == checked_add(used_cap, additional)
  IN IF used = None THEN RPanic(self)
     ELSE IF used[1] > self.cap
       THEN LET twice   == saturating_mul(self.cap, 2)
                new_cap == IF twice > used[1] THEN twice ELSE used[1]
            IN IF alloc_array(new_cap) THEN [self EXCEPT !.cap = new_cap]
               ELSE RPanic(self)
     ELSE self

\* ------------------------------------------------------------------------
\* The states the two drafts start in
\* ------------------------------------------------------------------------
NoDrain == None

IdleIdx ==
  /\ il = EmptyList
  /\ dr = NoDrain
  /\ orig = <<>>
  /\ rng = None
  /\ out = <<>>
  /\ dirs = {}
  /\ iop = "new"
  /\ df = NoDrain
  /\ pred = <<>>
  /\ vw = None
  /\ vpos = 0
  /\ vret = None
  /\ vm = None
  /\ vm0 = None
  /\ il0 = EmptyList
  /\ mret = None
  /\ mcalls = 0
  /\ it = NoDrain
  /\ tret = None

IdleList ==
  /\ list = with_capacity(0)
  /\ debug = FALSE
  /\ ret = None
  /\ op = "new"
  /\ ref = <<>>
  /\ expect = None
  /\ steps = 0
  /\ prior = "new"
  /\ arg = None
  /\ other = with_capacity(0)
  /\ released = <<>>

IdleRaw ==
  /\ rv = RawVec_with_capacity(0)
  /\ rv0 = RawVec_with_capacity(0)
  /\ rcall = None

InitIdx == IdleIdx /\ IdleList /\ IdleRaw

\* ------------------------------------------------------------------------
\* The pointer draft: the calls a program makes
\* ------------------------------------------------------------------------
\* A call is made while the program has not panicked and has calls left.
CanCall == ~list.panicked /\ steps < MaxOps

\* A push is made while the Vec stays within MaxNodes slots.
CanPush == CanCall /\ (list.cache # None \/ nodes_len(list) < MaxNodes)

Init ==
  /\ \E capacity \in 0..MaxNodes : list = with_capacity(capacity)
  /\ debug \in BOOLEAN
  /\ ret = None
  /\ op = "new"
  /\ ref = <<>>
  /\ expect = None
  /\ steps = 0
  /\ prior = "new"
  /\ arg = None
  /\ other = with_capacity(0)
  /\ released = <<>>
  /\ IdleIdx
  /\ IdleRaw

PushFront ==
  /\ CanPush
  /\ \E elt \in Values, moved \in BOOLEAN :
       /\ list' = push_front(list, elt, moved)
       /\ ref' = <<elt>> \o ref
  /\ ret' = None
  /\ expect' = None
  /\ op' = "push_front"
  /\ steps' = steps + 1
  /\ UNCHANGED debug

PushBack ==
  /\ CanPush
  /\ \E elt \in Values, moved \in BOOLEAN :
       /\ list' = push_back(list, elt, moved)
       /\ ref' = Append(ref, elt)
  /\ ret' = None
  /\ expect' = None
  /\ op' = "push_back"
  /\ steps' = steps + 1
  /\ UNCHANGED debug

PopFront ==
  /\ CanCall
  /\ list' = pop_front(list).st
  /\ ret' = pop_front(list).ret
  /\ expect' = RefFront(ref)
  /\ ref' = RefPopFront(ref)
  /\ op' = "pop_front"
  /\ steps' = steps + 1
  /\ UNCHANGED debug

PopBack ==
  /\ CanCall
  /\ list' = pop_back(list).st
  /\ ret' = pop_back(list).ret
  /\ expect' = RefBack(ref)
  /\ ref' = RefPopBack(ref)
  /\ op' = "pop_back"
  /\ steps' = steps + 1
  /\ UNCHANGED debug

Clear ==
  /\ CanCall
  /\ list' = clear(list)
  /\ ret' = None
  /\ expect' = None
  /\ ref' = <<>>
  /\ op' = "clear"
  /\ steps' = steps + 1
  /\ UNCHANGED debug

Next ==
  (PushFront \/ PushBack \/ PopFront \/ PopBack \/ Clear)
    /\ UNCHANGED <<ivars, cvars, fvars, wvars, mvars, tvars, ovars, rvars>>

Spec == Init /\ [][Next]_vars

\* ------------------------------------------------------------------------
\* The pointer draft: the calls on ranges and on the capacity
\* ------------------------------------------------------------------------
\* The bounds of the ranges handed to drain.
RangeBounds == {Unbounded} \cup { Included(i) : i \in 0..MaxNodes }
                           \cup { Excluded(i) : i \in 0..MaxNodes }

\* The Drain handed back by drain borrows the list until it is dropped.
NotBorrowed == op # "drain" /\ steps < MaxCapOps

\* push_front, push_back, pop_front and pop_back
PushPop ==
  /\ NotBorrowed
  /\ PushFront \/ PushBack \/ PopFront \/ PopBack
  /\ prior' = op
  /\ arg' = None

\* list.drain(range)
ListDrain ==
  /\ CanCall /\ NotBorrowed
  /\ \E lo \in RangeBounds, hi \in RangeBounds :
       /\ list' = drain(list, lo, hi).st
       /\ ret' = drain(list, lo, hi).ret
       /\ arg' = <<lo, hi>>
  /\ op' = "drain"
  /\ prior' = op
  /\ steps' = steps + 1
  /\ UNCHANGED <<debug, ref, expect>>

\* drain.next(), drain.next_back() or drop(drain) on the Drain handed back
DrainUse ==
  /\ ~list.panicked /\ op = "drain"
  /\ list' = Drain_unimplemented(list)
  /\ ret' = None
  /\ op' = "drain.next"
  /\ prior' = op
  /\ UNCHANGED <<debug, ref, expect, steps, arg>>

\* list.split_off(at)
SplitOff ==
  /\ CanCall /\ NotBorrowed
  /\ \E at \in 0..(MaxNodes + 1) :
       /\ list' = split_off(list, at).st
       /\ ret' = split_off(list, at).ret
       /\ arg' = Some(at)
  /\ op' = "split_off"
  /\ prior' = op
  /\ steps' = steps + 1
  /\ UNCHANGED <<debug, ref, expect>>

\* list.shrink_to_fit()
ShrinkToFit ==
  /\ CanCall /\ NotBorrowed
  /\ \E moved \in BOOLEAN : list' = shrink_to_fit(list, moved)
  /\ ret' = None
  /\ arg' = None
  /\ op' = "shrink_to_fit"
  /\ prior' = op
  /\ steps' = steps + 1
  /\ UNCHANGED <<debug, ref, expect>>

NextCap ==
  (PushPop \/ ListDrain \/ DrainUse \/ SplitOff \/ ShrinkToFit)
    /\ UNCHANGED <<ivars, fvars, wvars, mvars, tvars, ovars, rvars>>

SpecCap == Init /\ [][NextCap]_vars

\* ------------------------------------------------------------------------
\* The pointer draft: the calls on two lists and the drop
\* ------------------------------------------------------------------------
\* other.push_back(elt)
OtherPushBack ==
  /\ CanCall /\ NotBorrowed /\ op # "drop"
  /\ nodes_len(other) < MaxNodes
  /\ \E elt \in Values, moved \in BOOLEAN :
       /\ other' = push_back(other, elt, moved)
       /\ arg' = Some(elt)
  /\ op' = "other.push_back"
  /\ prior' = op
  /\ steps' = steps + 1
  /\ UNCHANGED <<list, debug, ret, ref, expect, released>>

\* list.append(&mut other)
ListAppend ==
  /\ CanCall /\ NotBorrowed /\ op # "drop"
  /\ \E moved \in BOOLEAN :
       LET r == VecList_append(list, other, moved)
       IN /\ list' = r.st
          /\ other' = r.other
  /\ ret' = None
  /\ arg' = None
  /\ op' = "append"
  /\ prior' = op
  /\ steps' = steps + 1
  /\ UNCHANGED <<debug, ref, expect, released>>

\* drop(list)
DropList ==
  /\ CanCall /\ NotBorrowed /\ op # "drop"
  /\ LET r == VecList_drop(list)
     IN /\ list' = r.st
        /\ released' = r.released
  /\ ret' = None
  /\ arg' = None
  /\ op' = "drop"
  /\ prior' = op
  /\ steps' = steps + 1
  /\ UNCHANGED <<debug, ref, expect, other>>

NextOwn ==
  (\/ PushPop /\ UNCHANGED ovars
   \/ OtherPushBack \/ ListAppend \/ DropList)
    /\ UNCHANGED <<ivars, fvars, wvars, mvars, tvars, rvars>>

SpecOwn == Init /\ [][NextOwn]_vars

\* ------------------------------------------------------------------------
\* The pointer draft: the calls on positions, on the free list and on the
\* capacity
\* ------------------------------------------------------------------------
\* list.get_node(index)
GetNode ==
  /\ CanCall
  /\ \E index \in 0..(MaxNodes + 1) :
       /\ list' = get_node(list, index).st
       /\ ret' = get_node(list, index).node
       /\ arg' = Some(index)
  /\ op' = "get_node"
  /\ prior' = op
  /\ steps' = steps + 1
  /\ UNCHANGED <<debug, ref, expect>>

\* list.cached().  On a free list that runs in a cycle rec_len recurses
\* until the stack overflows.
CallCached ==
  /\ CanCall /\ NotBorrowed
  /\ IF list.cache # None
        /\ walk_next(list, list.cache, TotalSlots(list) + 1) # None
       THEN list' = Panic(list) /\ ret' = None
       ELSE list' = list /\ ret' = Some(cached(list))
  /\ arg' = None
  /\ op' = "cached"
  /\ prior' = op
  /\ steps' = steps + 1
  /\ UNCHANGED <<debug, ref, expect>>

\* list.reserve(additional)
Reserve ==
  /\ CanCall /\ NotBorrowed
  /\ \E additional \in 0..MaxNodes, moved \in BOOLEAN :
       /\ list' = reserve(list, additional, moved)
       /\ arg' = Some(additional)
  /\ ret' = None
  /\ op' = "reserve"
  /\ prior' = op
  /\ steps' = steps + 1
  /\ UNCHANGED <<debug, ref, expect>>

\* list.reserve_exact(additional)
ReserveExact ==
  /\ CanCall /\ NotBorrowed
  /\ \E additional \in 0..MaxNodes, moved \in BOOLEAN :
       /\ list' = reserve_exact(list, additional, moved)
       /\ arg' = Some(additional)
  /\ ret' = None
  /\ op' = "reserve_exact"
  /\ prior' = op
  /\ steps' = steps + 1
  /\ UNCHANGED <<debug, ref, expect>>

\* Up to MaxCapOps calls, any of them.
NextNode ==
  (\/ PushPop
   \/ GetNode /\ NotBorrowed
   \/ CallCached \/ Reserve \/ ReserveExact)
    /\ UNCHANGED <<ivars, fvars, wvars, mvars, tvars, ovars, rvars>>

SpecNode == Init /\ [][NextNode]_vars

\* Up to MaxOps calls, pushes, pops and get_node only.
NextGet ==
  (\/ (PushFront \/ PushBack \/ PopFront \/ PopBack) /\ UNCHANGED cvars
   \/ GetNode)
    /\ UNCHANGED <<ivars, fvars, wvars, mvars, tvars, ovars, rvars>>

SpecGet == Init /\ [][NextGet]_vars


\* ------------------------------------------------------------------------
\* The buffer: the calls on a RawVec
\* ------------------------------------------------------------------------
\* RawVec::with_capacity(cap) has returned a buffer.
InitRaw ==
  /\ \E cap \in 0..IsizeMax : rv = RawVec_with_capacity(cap)
  /\ rv0 = rv
  /\ rcall = None
  /\ IdleIdx
  /\ IdleList

\* rv.reserve(used_cap, additional), with no more slots in use than the
\* buffer has
RawReserve ==
  /\ ~rv.panicked
  /\ \E used_cap \in 0..rv.cap, additional \in 0..UsizeMax :
       /\ rv' = RawVec_reserve(rv, used_cap, additional)
       /\ rcall' = Some([op |-> "reserve", used_cap |-> used_cap,
                         additional |-> additional])
  /\ rv0' = rv

\* rv.reserve_exact(used_cap, additional)
RawReserveExact ==
  /\ ~rv.panicked
  /\ \E used_cap \in 0..rv.cap, additional \in 0..UsizeMax :
       /\ rv' = RawVec_reserve_exact(rv, used_cap, additional)
       /\ rcall' = Some([op |-> "reserve_exact", used_cap |-> used_cap,
                         additional |-> additional])
  /\ rv0' = rv

NextRaw ==
  (RawReserve \/ RawReserveExact)
    /\ UNCHANGED <<avars, ivars, cvars, fvars, wvars, mvars, tvars, ovars>>

SpecRaw == InitRaw /\ [][NextRaw]_vars

\* ------------------------------------------------------------------------
\* The index draft: the calls a program makes
\* ------------------------------------------------------------------------
\* The positions a range stands for in a list of n elements
\* (RangeBounds::contains).
InRange(lo, hi, p) ==
  /\ CASE lo.kind = "Included" -> p >= lo.idx
       [] lo.kind = "Excluded" -> p > lo.idx
       [] OTHER -> TRUE
  /\ CASE hi.kind = "Included" -> p <= hi.idx
       [] hi.kind = "Excluded" -> p < hi.idx
       [] OTHER -> TRUE

Bounds == {Unbounded} \cup { Included(i) : i \in 0..MaxLen }
                      \cup { Excluded(i) : i \in 0..MaxLen }

Min(S) == CHOOSE x \in S : \A y \in S : x <= y
Max(S) == CHOOSE x \in S : \A y \in S : x >= y

\* A behaviour builds a list with push_back and push_front, drains one range
\* of it, steps the Drain any number of times and drops it.
Building == ~il.panicked /\ dr = NoDrain /\ iop \in {"new", "push_back", "push_front"}

\* push_back / push_front
IxPushBack ==
  /\ Building /\ il.len < MaxLen
  /\ \E v \in Values : il' = ix_push_back(il, v)
  /\ iop' = "push_back"
  /\ UNCHANGED <<dr, orig, rng, out, dirs>>

IxPushFront ==
  /\ Building /\ il.len < MaxLen
  /\ \E v \in Values : il' = ix_push_front(il, v)
  /\ iop' = "push_front"
  /\ UNCHANGED <<dr, orig, rng, out, dirs>>

\* list.drain(range)
NewDrain ==
  /\ Building
  /\ \E lo \in Bounds, hi \in Bounds :
       LET r   == new_drain(il, lo, hi)
           pos == { p \in 0..(il.len - 1) : InRange(lo, hi, p) }
       IN /\ il' = r.st
          /\ dr' = IF r.st.panicked THEN NoDrain ELSE Some(r.ends)
          /\ rng' = IF pos = {} THEN None ELSE Some(<<Min(pos), Max(pos)>>)
  /\ orig' = Elems(il)
  /\ out' = <<>>
  /\ dirs' = {}
  /\ iop' = "drain"

\* drain.next()
DrainNext ==
  /\ dr # NoDrain
  /\ LET r == Drain_next(il, dr[1])
     IN /\ il' = r.st
        /\ dr' = Some(r.ends)
        /\ out' = out \o r.ret
  /\ dirs' = dirs \cup {"next"}
  /\ iop' = "next"
  /\ UNCHANGED <<orig, rng>>

\* drain.next_back()
DrainNextBack ==
  /\ dr # NoDrain
  /\ LET r == Drain_next_back(il, dr[1])
     IN /\ il' = r.st
        /\ dr' = Some(r.ends)
        /\ out' = out \o r.ret
  /\ dirs' = dirs \cup {"next_back"}
  /\ iop' = "next_back"
  /\ UNCHANGED <<orig, rng>>

\* drop(drain)
DrainDrop ==
  /\ dr # NoDrain
  /\ il' = Drain_drop(il, dr[1])
  /\ dr' = NoDrain
  /\ iop' = "drop"
  /\ UNCHANGED <<orig, rng, out, dirs>>

NextIdx ==
  (IxPushBack \/ IxPushFront \/ NewDrain \/ DrainNext \/ DrainNextBack
     \/ DrainDrop)
    /\ UNCHANGED <<avars, cvars, fvars, wvars, mvars, tvars, ovars, rvars>>

SpecIdx == InitIdx /\ [][NextIdx]_vars

\* ------------------------------------------------------------------------
\* The index draft: filtering drains and retain
\* ------------------------------------------------------------------------
\* A behaviour builds a list with push_back and push_front and then either
\* calls retain once or makes up to MaxRounds filtering drains, each made
\* when the one before is exhausted.  A DrainFilter is stepped until its
\* range is used up, or dropped before.

\* list.drain_filter(filter)
NewDrainFilter ==
  /\ ~il.panicked
  /\ Building \/ (df = Some(None) /\ Len(pred) < MaxRounds)
  /\ \E f \in Filters :
       /\ df' = Some(new_drain_filter(il, f))
       /\ pred' = Append(pred, f)
  /\ orig' = IF pred = <<>> THEN Elems(il) ELSE orig
  /\ out' = <<>>
  /\ dirs' = {}
  /\ iop' = "drain_filter"
  /\ UNCHANGED <<il, dr, rng>>

\* drain_filter.next(), also on a DrainFilter that is used up
DrainFilterNextAny ==
  /\ df # NoDrain
  /\ LET r == DrainFilter_next(il, df[1], pred[Len(pred)])
     IN /\ il' = r.st
        /\ df' = Some(r.ends)
        /\ out' = out \o r.ret
  /\ dirs' = dirs \cup {"next"}
  /\ iop' = "filter.next"
  /\ UNCHANGED <<dr, orig, rng, pred>>

\* drain_filter.next()
DrainFilterNext == df # Some(None) /\ DrainFilterNextAny

\* drain_filter.next_back(), also on a DrainFilter that is used up
DrainFilterNextBackAny ==
  /\ df # NoDrain
  /\ LET r == DrainFilter_next_back(il, df[1], pred[Len(pred)])
     IN /\ il' = r.st
        /\ df' = Some(r.ends)
        /\ out' = out \o r.ret
  /\ dirs' = dirs \cup {"next_back"}
  /\ iop' = "filter.next_back"
  /\ UNCHANGED <<dr, orig, rng, pred>>

\* drain_filter.next_back()
DrainFilterNextBack == df # Some(None) /\ DrainFilterNextBackAny

\* drop(drain_filter)
DrainFilterDrop ==
  /\ df # NoDrain
  /\ il' = DrainFilter_drop(il, df[1], pred[Len(pred)])
  /\ df' = NoDrain
  /\ iop' = "filter.drop"
  /\ UNCHANGED <<dr, orig, rng, out, dirs, pred>>

\* list.retain(predicate)
Retain ==
  /\ Building
  /\ \E f \in Filters :
       /\ il' = retain(il, f)
       /\ pred' = <<f>>
  /\ orig' = Elems(il)
  /\ iop' = "retain"
  /\ UNCHANGED <<dr, rng, out, dirs, df>>

NextFilter ==
  (\/ (IxPushBack \/ IxPushFront) /\ UNCHANGED fvars
   \/ NewDrainFilter \/ DrainFilterNext \/ DrainFilterNextBack
   \/ DrainFilterDrop \/ Retain)
    /\ UNCHANGED <<avars, cvars, wvars, mvars, tvars, ovars, rvars>>

SpecFilter == InitIdx /\ [][NextFilter]_vars

\* ------------------------------------------------------------------------
\* The index draft: views
\* ------------------------------------------------------------------------
\* A behaviour builds a list with push_back and push_front, binds a View to
\* a position and calls next() and prev() on it; other Views are bound to
\* the same list afterwards.

\* list.view(index)
ViewAt ==
  /\ ~il.panicked
  /\ Building \/ vw # None
  /\ \E index \in 0..MaxLen :
       /\ il' = view(il, index).st
       /\ vw' = view(il, index).view
       /\ vpos' = index
  /\ vret' = None
  /\ iop' = "view"
  /\ UNCHANGED <<dr, orig, rng, out, dirs>>

\* view.next()
ViewNext ==
  /\ ~il.panicked /\ vw # None
  /\ vret' = View_next(il, vw[1])
  /\ iop' = "view.next"
  /\ UNCHANGED <<il, dr, orig, rng, out, dirs, vw, vpos>>

\* view.prev()
ViewPrev ==
  /\ ~il.panicked /\ vw # None
  /\ vret' = View_prev(il, vw[1])
  /\ iop' = "view.prev"
  /\ UNCHANGED <<il, dr, orig, rng, out, dirs, vw, vpos>>

NextView ==
  (\/ (IxPushBack \/ IxPushFront) /\ UNCHANGED wvars
   \/ ViewAt \/ ViewNext \/ ViewPrev)
    /\ UNCHANGED <<avars, cvars, fvars, mvars, tvars, ovars, rvars>>

SpecView == InitIdx /\ [][NextView]_vars

\* ------------------------------------------------------------------------
\* The index draft: mutable views
\* ------------------------------------------------------------------------
\* A behaviour builds a list with push_back, binds a ViewMut to a position
\* and makes up to MaxViewOps calls on it, none after it is deleted.
HasViewMut == ~il.panicked /\ vm # None /\ mcalls < MaxViewOps

\* list.view_mut(index)
ViewMutAt ==
  /\ Building /\ vm = None
  /\ \E index \in 0..MaxLen :
       /\ il' = view_mut(il, index).st
       /\ vm' = view_mut(il, index).view
  /\ vm0' = None
  /\ il0' = il
  /\ mret' = None
  /\ mcalls' = 0
  /\ iop' = "view_mut"
  /\ UNCHANGED <<dr, orig, rng, out, dirs>>

\* view.next()
ViewMutNext ==
  /\ HasViewMut
  /\ LET r == ViewMut_next(il, vm[1])
     IN /\ vm' = Some(r.self)
        /\ mret' = r.ret
  /\ vm0' = vm
  /\ il0' = il
  /\ mcalls' = mcalls + 1
  /\ iop' = "vm.next"
  /\ UNCHANGED <<il, dr, orig, rng, out, dirs>>

\* view.prev()
ViewMutPrev ==
  /\ HasViewMut
  /\ LET r == ViewMut_prev(il, vm[1])
     IN /\ vm' = Some(r.self)
        /\ mret' = r.ret
  /\ vm0' = vm
  /\ il0' = il
  /\ mcalls' = mcalls + 1
  /\ iop' = "vm.prev"
  /\ UNCHANGED <<il, dr, orig, rng, out, dirs>>

\* view.insert_before(value)
ViewMutInsertBefore ==
  /\ HasViewMut /\ il.len < MaxLen
  /\ \E value \in Values :
       /\ il' = ViewMut_insert_before(il, vm[1], value)
       /\ mret' = Some(value)
  /\ vm0' = vm
  /\ il0' = il
  /\ mcalls' = mcalls + 1
  /\ iop' = "vm.insert_before"
  /\ UNCHANGED <<vm, dr, orig, rng, out, dirs>>

\* view.insert_after(value)
ViewMutInsertAfter ==
  /\ HasViewMut /\ il.len < MaxLen
  /\ \E value \in Values :
       /\ il' = ViewMut_insert_after(il, vm[1], value)
       /\ mret' = Some(value)
  /\ vm0' = vm
  /\ il0' = il
  /\ mcalls' = mcalls + 1
  /\ iop' = "vm.insert_after"
  /\ UNCHANGED <<vm, dr, orig, rng, out, dirs>>

\* view.pop_before()
ViewMutPopBefore ==
  /\ HasViewMut
  /\ LET r == ViewMut_pop_before(il, vm[1])
     IN /\ il' = r.st
        /\ mret' = r.ret
  /\ vm0' = vm
  /\ il0' = il
  /\ mcalls' = mcalls + 1
  /\ iop' = "vm.pop_before"
  /\ UNCHANGED <<vm, dr, orig, rng, out, dirs>>

\* view.pop_after()
ViewMutPopAfter ==
  /\ HasViewMut
  /\ LET r == ViewMut_pop_after(il, vm[1])
     IN /\ il' = r.st
        /\ mret' = r.ret
  /\ vm0' = vm
  /\ il0' = il
  /\ mcalls' = mcalls + 1
  /\ iop' = "vm.pop_after"
  /\ UNCHANGED <<vm, dr, orig, rng, out, dirs>>

\* view.delete()
ViewMutDelete ==
  /\ HasViewMut
  /\ LET r == ViewMut_delete(il, vm[1])
     IN /\ il' = r.st
        /\ mret' = Some(r.ret)
  /\ vm' = None
  /\ vm0' = vm
  /\ il0' = il
  /\ mcalls' = mcalls + 1
  /\ iop' = "vm.delete"
  /\ UNCHANGED <<dr, orig, rng, out, dirs>>

NextViewMut ==
  (\/ IxPushBack /\ UNCHANGED mvars
   \/ ViewMutAt \/ ViewMutNext \/ ViewMutPrev
   \/ ViewMutInsertBefore \/ ViewMutInsertAfter
   \/ ViewMutPopBefore \/ ViewMutPopAfter \/ ViewMutDelete)
    /\ UNCHANGED <<avars, cvars, fvars, wvars, tvars, ovars, rvars>>

SpecViewMut == InitIdx /\ [][NextViewMut]_vars

\* ------------------------------------------------------------------------
\* The index draft: iteration
\* ------------------------------------------------------------------------
\* A behaviour builds a list with push_back and push_front, makes an Iter
\* over it and steps it from either end, once more after it is used up.

\* list.iter()
ListIter ==
  /\ Building /\ it = NoDrain
  /\ it' = Some(iter(il))
  /\ tret' = None
  /\ orig' = Elems(il)
  /\ out' = <<>>
  /\ dirs' = {}
  /\ iop' = "iter"
  /\ UNCHANGED <<il, dr, rng>>

\* The Iter can be stepped: it has ends, or its last step still returned a
\* reference, or it was made over an empty list and not stepped yet.
CanStep == it # NoDrain /\ (it # Some(None) \/ tret # None \/ iop = "iter")

\* iter.next(), also on an Iter that is used up
IterNextAny ==
  /\ it # NoDrain
  /\ LET r == Iter_next(il, it[1])
     IN /\ it' = Some(r.ends)
        /\ tret' = r.ret
        /\ out' = IF r.ret = None THEN out
                  ELSE Append(out, <<r.ret[1], slot(il, r.ret[1]).value>>)
  /\ dirs' = dirs \cup {"next"}
  /\ iop' = "iter.next"
  /\ UNCHANGED <<il, dr, orig, rng>>

\* iter.next()
IterNext == CanStep /\ IterNextAny

\* iter.next_back(), also on an Iter that is used up
IterNextBackAny ==
  /\ it # NoDrain
  /\ LET r == Iter_next_back(il, it[1])
     IN /\ it' = Some(r.ends)
        /\ tret' = r.ret
        /\ out' = IF r.ret = None THEN out
                  ELSE Append(out, <<r.ret[1], slot(il, r.ret[1]).value>>)
  /\ dirs' = dirs \cup {"next_back"}
  /\ iop' = "iter.next_back"
  /\ UNCHANGED <<il, dr, orig, rng>>

\* iter.next_back()
IterNextBack == CanStep /\ IterNextBackAny

NextIter ==
  (\/ (IxPushBack \/ IxPushFront) /\ UNCHANGED tvars
   \/ ListIter \/ IterNext \/ IterNextBack)
    /\ UNCHANGED <<avars, cvars, fvars, wvars, mvars, ovars, rvars>>

SpecIter == InitIdx /\ [][NextIter]_vars

\* ------------------------------------------------------------------------
\* The index draft: iterators stepped past their end
\* ------------------------------------------------------------------------
\* A behaviour builds a list of up to MaxFused entries with push_back and
\* push_front, makes a Drain, a DrainFilter or an Iter over it and steps it
\* from both ends any number of times, also after it has returned None.
NextFused ==
  (\/ (IxPushBack \/ IxPushFront) /\ il.len < MaxFused
        /\ UNCHANGED <<fvars, tvars>>
   \/ (NewDrain \/ DrainNext \/ DrainNextBack) /\ UNCHANGED <<fvars, tvars>>
   \/ (NewDrainFilter \/ DrainFilterNextAny \/ DrainFilterNextBackAny)
        /\ UNCHANGED tvars
   \/ (ListIter \/ IterNextAny \/ IterNextBackAny) /\ UNCHANGED fvars)
    /\ UNCHANGED <<avars, cvars, wvars, mvars, ovars, rvars>>

SpecFused == InitIdx /\ [][NextFused]_vars

\* ------------------------------------------------------------------------
\* Claims about the pointer draft
\* ------------------------------------------------------------------------
Completed == ~list.panicked

\* C1: after any sequence of push_front, push_back, pop_front and pop_back
\* on a list that started empty, len(), front() and back() agree with the
\* reference double-ended sequence and every pop returns what the reference
\* sequence removes at that end.
C1_RefinesDeque ==
  Completed =>
    /\ len(list) = Len(ref)
    /\ front(list) = RefFront(ref)
    /\ back(list) = RefBack(ref)
    /\ op \in {"pop_front", "pop_back"} => ret = expect

\* C2: on a non-empty list, len()-1 next links lead from head to tail and
\* len()-1 prev links lead from tail to head.
C2_EndsConnected ==
  Completed /\ (len(list) # 0 \/ ~is_empty(list)) =>
    /\ list.head # None /\ list.tail # None
    /\ len(list) >= 1
    /\ walk_next(list, list.head, len(list) - 1) = list.tail
    /\ walk_prev(list, list.tail, len(list) - 1) = list.head

\* C3: for every node n of the active chain, the successor of n has n as its
\* predecessor and the predecessor of n has n as its successor.
C3_LinksSymmetric ==
  Completed =>
    \A n \in Active(list) :
      /\ deref(list, n).next # None =>
           deref(list, deref(list, n).next[1]).prev = Some(n)
      /\ deref(list, n).prev # None =>
           deref(list, deref(list, n).prev[1]).next = Some(n)

\* C4: on a non-empty list the head node has no prev link and the tail node
\* has no next link.
C4_EndsUnlinked ==
  Completed =>
    /\ list.head # None => deref(list, list.head[1]).prev = None
    /\ list.tail # None => deref(list, list.tail[1]).next = None

\* C5: the list has no head and no tail, and is_empty() holds, exactly when
\* len() is 0.
C5_EmptyIffZero ==
  Completed =>
    ((list.head = None /\ list.tail = None /\ is_empty(list)) <=> len(list) = 0)

\* C6: every slot of the backing buffer is in exactly one of the active
\* chain and the free list.
C6_SlotsPartitioned ==
  Completed =>
    \A s \in Slots(list) : (s \in Active(list)) # (s \in Cached(list))

\* C7: head, tail, the free-list head and every link of an active or free
\* node refer to a slot of the backing buffer (index below nodes.len()).
C7_LinksInBounds ==
  Completed => Links(list) \subseteq Slots(list)

\* C8: pop_front() and pop_back() on an empty list return None and leave the
\* whole list unchanged.
C8_PopEmptyNoop ==
  [][(len(list) = 0 /\ is_empty(list) /\ op' \in {"pop_front", "pop_back"})
       => (ret' = None /\ list' = list)]_avars

\* ------------------------------------------------------------------------
\* Claims about ranges and the capacity of the pointer draft
\* ------------------------------------------------------------------------
\* The index a start bound resolves to.
ResolvedStart(lo) ==
  CASE lo.kind = "Included" -> lo.idx
    [] lo.kind = "Excluded" -> lo.idx + 1
    [] OTHER -> 0

\* The index an end bound resolves to on a list of n elements.
ResolvedEnd(hi, n) ==
  CASE hi.kind = "Included" -> hi.idx
    [] hi.kind = "Excluded" -> hi.idx - 1
    [] OTHER -> n - 1

\* The range is out of order or out of bounds on a list of n elements; the
\* full range of the empty list is left to C12.
BadRange(lo, hi, n) ==
  /\ ~(n = 0 /\ hi = Unbounded /\ ResolvedStart(lo) = 0)
  /\ \/ ResolvedStart(lo) > ResolvedEnd(hi, n)
     \/ ~(ResolvedStart(lo) < n)
     \/ ~(ResolvedEnd(hi, n) < n)

\* The values met from the Option p along at most fuel next links.
RECURSIVE values_from(_, _, _)
values_from(L, p, fuel) ==
  IF fuel = 0 \/ p = None THEN <<>>
  ELSE <<deref(L, p[1]).value>>
         \o values_from(L, deref(L, p[1]).next, fuel - 1)

\* The element sequence of the list, read from head.
elements(L) == values_from(L, L.head, TotalSlots(L))

\* C11: drain(range) with a resolved start above the resolved end, or with
\* a resolved index that is not below len(), panics at construction and
\* leaves the list as it was.
C11_DrainRejects ==
  [][(op' = "drain" /\ len(list) >= 0
        /\ BadRange(arg'[1], arg'[2], len(list)))
       => list' = Panic(list)]_vars

\* C12: drain with an unbounded end and a start index inside the list is
\* accepted and hands back a Drain over every element from the start index
\* through the last one; drain(..) on the empty list is accepted too.
C12_UnboundedEnd ==
  [][(op' = "drain" /\ arg'[2] = Unbounded /\ len(list) >= 0
        /\ \/ ResolvedStart(arg'[1]) < len(list)
           \/ (ResolvedStart(arg'[1]) = 0 /\ len(list) = 0))
       => /\ ~list'.panicked
          /\ ret' # None
          /\ ret'[1].len = len(list) - ResolvedStart(arg'[1])
          /\ len(list) > 0 =>
               /\ ret'[1].head
                    = walk_next(list, list.head, ResolvedStart(arg'[1]))
               /\ ret'[1].tail = list.tail]_vars

\* C17: split_off(at) with at <= len() does not fail: it returns a list and
\* leaves at elements in the original one.
C17_SplitOff ==
  [][(op' = "split_off" /\ len(list) >= 0 /\ arg'[1] <= len(list))
       => /\ ~list'.panicked
          /\ ret' # None
          /\ len(list') = arg'[1]]_vars

\* C18: shrink_to_fit() leaves the element sequence and len() as they were
\* and ends with as many slots as elements and a capacity equal to len().
C18_ShrinkCompacts ==
  [][op' = "shrink_to_fit"
       => /\ ~list'.panicked
          /\ elements(list') = elements(list)
          /\ len(list') = len(list)
          /\ nodes_len(list') = len(list')
          /\ list'.cap = len(list')]_vars

\* C19: a shrink_to_fit() that follows a shrink_to_fit() changes nothing:
\* capacity, slots, links and elements are those the first call left.
C19_ShrinkIdempotent ==
  [][(op = "shrink_to_fit" /\ op' = "shrink_to_fit") => list' = list]_vars

\* shrink_to_fit() was called twice in a row on a list with an element, and
\* a call has moved the buffer: head still holds an address in the old block.
C19_Witness ==
  /\ op = "shrink_to_fit" /\ prior = "shrink_to_fit"
  /\ ~list.panicked
  /\ list.head # None /\ list.head[1][1] # Len(list.mem)
  /\ list.cap = nodes_len(list)

\* ------------------------------------------------------------------------
\* Claims about clear and about the values of the pointer draft
\* ------------------------------------------------------------------------
\* C28: clear() does not fail and leaves a list with len() 0, is_empty()
\* true and front() and back() None; a push made right after it leaves a
\* list of that one element.
C28_ClearEmpties ==
  [][/\ op' = "clear" =>
          /\ ~list'.panicked
          /\ len(list') = 0 /\ is_empty(list')
          /\ front(list') = None /\ back(list') = None
     /\ (op = "clear" /\ op' \in {"push_front", "push_back"}) =>
          (~list'.panicked /\ elements(list') = ref' /\ len(list') = 1)]_vars

\* The number of entries of the sequence s that are v.
Count(s, v) == Cardinality({ k \in 1..Len(s) : s[k] = v })

\* C29: a value is moved between the caller and the active chain, never
\* copied: a push adds one entry with the pushed value to the active chain
\* and changes no other, a pop that hands a value to the caller takes one
\* entry with that value off the active chain and changes no other, and a
\* pop that returns None leaves the active chain as it was.
C29_ValuesMoved ==
  [][~list'.panicked =>
       LET before == elements(list)
           after  == elements(list')
       IN /\ op' = "push_front" =>
               \A v \in Values :
                 Count(after, v) = Count(before, v)
                                     + (IF v = ref'[1] THEN 1 ELSE 0)
          /\ op' = "push_back" =>
               \A v \in Values :
                 Count(after, v) = Count(before, v)
                                     + (IF v = ref'[Len(ref')] THEN 1 ELSE 0)
          /\ (op' \in {"pop_front", "pop_back"} /\ ret' = None) =>
               after = before
          /\ (op' \in {"pop_front", "pop_back"} /\ ret' # None) =>
               \A v \in Values :
                 Count(before, v) = Count(after, v)
                                      + (IF v = ret'[1] THEN 1 ELSE 0)]_vars

\* C31: a push made while the free list is not empty puts the value in the
\* slot at the head of the free list, makes the next slot of the free list
\* its head and leaves the number of slots of the Vec as it was; a push made
\* while the free list is empty adds one slot at the end of the Vec and puts
\* the value there.  The head of the free list is the slot freed last: a pop
\* that returns a value makes the slot it took off the list the head of the
\* free list.
C31_AllocReuses ==
  [][~list'.panicked =>
       /\ op' \in {"push_front", "push_back"} =>
            LET node == IF op' = "push_front" THEN list'.head ELSE list'.tail
            IN IF list.cache # None
                 THEN /\ node = list.cache
                      /\ nodes_len(list') = nodes_len(list)
                      /\ list'.cache = deref(list, list.cache[1]).next
                 ELSE /\ nodes_len(list') = nodes_len(list) + 1
                      /\ node = Some(<<Len(list'.mem), nodes_len(list')>>)
                      /\ list'.cache = None
       /\ (op' = "pop_front" /\ ret' # None) => list'.cache = list.head
       /\ (op' = "pop_back" /\ ret' # None) => list'.cache = list.tail]_vars

\* Of two slots freed by pop_front() and then pop_back(), a push_back took
\* the one freed last and left the other on the free list.
C31_Witness ==
  /\ op = "push_back" /\ steps = 5 /\ ~list.panicked
  /\ nodes_len(list) = 2 /\ len(list) = 1
  /\ list.tail = Some(<<Len(list.mem), 2>>)
  /\ list.cache = Some(<<Len(list.mem), 1>>)

\* C27: append(other) does not fail; it leaves the list with the elements
\* it had followed by the elements other had, in their order, and leaves
\* other empty.
C27_Append ==
  [][op' = "append" =>
       /\ ~list'.panicked
       /\ elements(list') = elements(list) \o elements(other)
       /\ len(list') = len(list) + len(other)
       /\ is_empty(other') /\ len(other') = 0]_vars

\* C30: dropping the list does not fail and drops the values of the active
\* chain, each once, and no other value.
C30_DropReleases ==
  [][op' = "drop" =>
       /\ ~list'.panicked
       /\ Len(released') = Len(elements(list))
       /\ \A v \in Values :
            Count(released', v) = Count(elements(list), v)]_vars

\* ------------------------------------------------------------------------
\* Claims about Drain
\* ------------------------------------------------------------------------
\* The sequence s without its positions a..b (counted from 0).
Without(s, r) ==
  IF r = None THEN s
  ELSE SubSeq(s, 1, r[1][1]) \o SubSeq(s, r[1][2] + 2, Len(s))

\* The values of a sequence of <<slot, value>> pairs.
ValuesOf(s) == [k \in 1..Len(s) |-> s[k][2]]

\* The sequence s backwards.
Reverse(s) == [k \in 1..Len(s) |-> s[Len(s) + 1 - k]]

C10_DrainOrder ==
  (dr = Some(None) /\ rng # None /\ Cardinality(dirs) = 1) =>
     /\ dirs = {"next"} =>
          out = ValuesOf(SubSeq(orig, rng[1][1] + 1, rng[1][2] + 1))
     /\ dirs = {"next_back"} =>
          out = Reverse(ValuesOf(SubSeq(orig, rng[1][1] + 1, rng[1][2] + 1)))
     /\ Elems(il) = Without(orig, rng)

\* A Drain over two different elements in the middle of the list was
\* exhausted backwards.
C10_Witness ==
  /\ dr = Some(None) /\ rng # None /\ dirs = {"next_back"}
  /\ rng[1][1] > 0 /\ rng[1][2] < Len(orig) - 1
  /\ Len(out) >= 2 /\ out[1] # out[2]

\* ------------------------------------------------------------------------
\* Claims about DrainFilter and retain
\* ------------------------------------------------------------------------
\* The entries of s the filter f answers b for, each with the value the
\* filter leaves behind.
RECURSIVE Sift(_, _, _)
Sift(s, f, b) ==
  IF s = <<>> THEN <<>>
  ELSE LET e == <<s[1][1], filter_value(f, s[1][2])>>
       IN IF filter_passed(f, s[1][2]) = b
            THEN <<e>> \o Sift(Tail(s), f, b)
            ELSE Sift(Tail(s), f, b)

\* What is left of s after filtering drains with the filters fs, one after
\* the other.
RECURSIVE LeftAfter(_, _)
LeftAfter(s, fs) ==
  IF fs = <<>> THEN s ELSE LeftAfter(Sift(s, fs[1], FALSE), Tail(fs))

\* What the last of the filtering drains with the filters fs removes from s.
LastYield(s, fs) ==
  Sift(LeftAfter(s, SubSeq(fs, 1, Len(fs) - 1)), fs[Len(fs)], TRUE)

\* C13: an exhausted DrainFilter has left in the list the elements its
\* filter answered false for, in their order, and one stepped only with
\* next() has yielded the others from head to tail, one stepped only with
\* next_back() from tail to head.
C13_FilterDrains ==
  (df = Some(None) /\ ~il.panicked) =>
     /\ ValuesOf(Elems(il)) = ValuesOf(LeftAfter(orig, pred))
     /\ il.len = Len(LeftAfter(orig, pred))
     /\ dirs \subseteq {"next"} => out = ValuesOf(LastYield(orig, pred))
     /\ dirs = {"next_back"} => out = Reverse(ValuesOf(LastYield(orig, pred)))

\* A DrainFilter was stepped backwards until exhausted; it removed two
\* elements and kept one between them and one at an end of the list.
C13_Witness ==
  /\ df = Some(None) /\ ~il.panicked /\ dirs = {"next_back"}
  /\ Len(pred) = 1 /\ Len(out) = 2 /\ Len(orig) = 4
  /\ filter_passed(pred[1], orig[1][2])
  /\ ~filter_passed(pred[1], orig[2][2])
  /\ filter_passed(pred[1], orig[3][2])

\* C14: after a DrainFilter is dropped, however many steps it had taken,
\* the list holds the elements its filter answers false for and no other.
C14_FilterDropCompletes ==
  (iop = "filter.drop" /\ ~il.panicked) =>
     ValuesOf(Elems(il)) = ValuesOf(LeftAfter(orig, pred))

C16_Retain ==
  (iop = "retain" /\ ~il.panicked) =>
     /\ Elems(il) = Sift(orig, pred[1], TRUE)
     /\ il.len = Len(Sift(orig, pred[1], TRUE))

\* retain removed the head, an element in the middle and kept two.
C16_Witness ==
  /\ iop = "retain" /\ ~il.panicked
  /\ Len(orig) = 4 /\ Len(Elems(il)) = 2
  /\ ~filter_passed(pred[1], orig[1][2])
  /\ filter_passed(pred[1], orig[2][2])
  /\ ~filter_passed(pred[1], orig[3][2])

\* ------------------------------------------------------------------------
\* Claims about View
\* ------------------------------------------------------------------------
\* The View of the element at position p of the list, None when the list
\* has no such position.
ViewOf(L, p) ==
  IF p < 0 \/ p >= Len(Elems(L)) THEN None
  ELSE Some(new_view(L, Elems(L)[p + 1][1]))

\* C20: next() on a View bound to position p returns a View of the element
\* at position p+1, prev() one of the element at position p-1, each None
\* when there is no such element; the list and the View are left as they
\* were.
C20_ViewSteps ==
  [][(iop' \in {"view.next", "view.prev"}) =>
       /\ il' = il /\ vw' = vw /\ vpos' = vpos
       /\ iop' = "view.next" => vret' = ViewOf(il, vpos + 1)
       /\ iop' = "view.prev" => vret' = ViewOf(il, vpos - 1)
       /\ vret' # None =>
            View_deref(il', vret'[1])
              = ValuesOf(Elems(il))[IF iop' = "view.next" THEN vpos + 2
                                                          ELSE vpos]]_vars

\* prev() was called on a View bound to a position in the middle of a list
\* whose slots are not in the order of the chain, and returned a View of
\* another value.
C20_Witness ==
  /\ iop = "view.prev" /\ vret # None
  /\ vpos = 2 /\ il.len = 4
  /\ vw[1].view # vpos
  /\ View_deref(il, vret[1]) # View_deref(il, vw[1])

\* ------------------------------------------------------------------------
\* Claims about ViewMut
\* ------------------------------------------------------------------------
\* The chain invariants of the index draft: the chain read from the head
\* ends at the tail and has len entries, all in different slots; the head
\* has no prev link, the tail no next link, and neighbours link each other.
WellLinked(L) ==
  LET e == Elems(L)
  IN /\ Len(e) = L.len
     /\ (L.ends = None) = (L.len = 0)
     /\ L.ends # None =>
          /\ e[Len(e)][1] = L.ends[1][2]
          /\ slot(L, L.ends[1][1]).prev = None
          /\ slot(L, L.ends[1][2]).next = None
          /\ \A k \in 1..(Len(e) - 1) :
               /\ slot(L, e[k][1]).next = Some(e[k + 1][1])
               /\ slot(L, e[k + 1][1]).prev = Some(e[k][1])
          /\ \A j, k \in 1..Len(e) : j # k => e[j][1] # e[k][1]

\* The position (counted from 1) of the slot i in the chain e, 0 when it is
\* not on it.
PosOf(e, i) ==
  IF \E k \in 1..Len(e) : e[k][1] = i
    THEN CHOOSE k \in 1..Len(e) : e[k][1] = i
    ELSE 0

\* The sequence s with x put at position k, and s without its position k.
InsertAt(s, k, x) == SubSeq(s, 1, k - 1) \o <<x>> \o SubSeq(s, k, Len(s))
RemoveAt(s, k) == SubSeq(s, 1, k - 1) \o SubSeq(s, k + 1, Len(s))

\* C21: on a list that satisfies the chain invariants, next() on a ViewMut
\* bound to position p binds it to position p+1 and returns Ok, prev() binds
\* it to position p-1 and returns Ok; next() at the tail and prev() at the
\* head return Err and leave the binding as it was; neither panics nor
\* changes the list, and a prev() made right after a next() that returned Ok
\* binds the ViewMut to the slot it was bound to before the next().
C21_ViewMutSteps ==
  [][(iop' \in {"vm.next", "vm.prev"} /\ WellLinked(il)) =>
       LET e == Elems(il)
           p == PosOf(e, vm[1].view)
           q == IF iop' = "vm.next" THEN p + 1 ELSE p - 1
       IN /\ il' = il
          /\ p # 0
          /\ IF q >= 1 /\ q <= Len(e)
               THEN mret' = Ok /\ vm' = Some(new_view_mut(il, e[q][1]))
               ELSE mret' = Err /\ vm' = vm
          /\ (iop = "vm.next" /\ mret = Ok /\ iop' = "vm.prev") =>
               (mret' = Ok /\ vm' = vm0)]_vars

\* prev() returned Ok right after a next() that returned Ok, on a ViewMut
\* bound to the second of three elements.
C21_Witness ==
  /\ iop = "vm.prev" /\ mret = Ok /\ mcalls = 2
  /\ il.len = 3 /\ WellLinked(il)
  /\ PosOf(Elems(il), vm[1].view) = 2
  /\ PosOf(Elems(il), vm0[1].view) = 3

\* C22: on a list that satisfies the chain invariants, insert_before(v) on a
\* ViewMut bound to position p puts v in a new slot at position p, and
\* insert_after(v) at position p+1; the other elements keep their slots and
\* their order, the ViewMut keeps its binding, the chain invariants hold
\* afterwards, and a node put before the head (after the tail) is the head
\* (tail) of the list.
C22_ViewMutInsert ==
  [][(iop' \in {"vm.insert_before", "vm.insert_after"} /\ WellLinked(il)) =>
       LET e  == Elems(il)
           e2 == Elems(il')
           p  == PosOf(e, vm[1].view)
           q  == IF iop' = "vm.insert_before" THEN p ELSE p + 1
       IN /\ ~il'.panicked
          /\ WellLinked(il')
          /\ vm' = vm
          /\ p # 0
          /\ Len(e2) = Len(e) + 1
          /\ e2[q][2] = mret'[1]
          /\ PosOf(e, e2[q][1]) = 0
          /\ e2 = InsertAt(e, q, e2[q])
          /\ q = 1 => il'.ends[1][1] = e2[q][1]
          /\ q = Len(e2) => il'.ends[1][2] = e2[q][1]]_vars

\* insert_before(2) was called on a ViewMut bound to the head of a list of
\* two elements 1: the new node is the head of the list.
C22_Witness ==
  /\ iop = "vm.insert_before" /\ mret = Some(2)
  /\ ValuesOf(Elems(il)) = <<2, 1, 1>>
  /\ slot(il, vm[1].view).prev = Some(il.ends[1][1])
  /\ il.ends[1][1] = 2

\* C23: on a list that satisfies the chain invariants, pop_before() on a
\* ViewMut bound to the head and pop_after() on one bound to the tail return
\* None and leave the list as it was; otherwise they return the value of the
\* neighbour and the chain of the list afterwards is the chain before without
\* that neighbour; the ViewMut keeps its binding.
C23_ViewMutPop ==
  [][(iop' \in {"vm.pop_before", "vm.pop_after"} /\ WellLinked(il)) =>
       LET e == Elems(il)
           p == PosOf(e, vm[1].view)
           q == IF iop' = "vm.pop_before" THEN p - 1 ELSE p + 1
       IN /\ ~il'.panicked
          /\ vm' = vm
          /\ IF q < 1 \/ q > Len(e)
               THEN mret' = None /\ il' = il
               ELSE /\ mret' = Some(e[q][2])
                    /\ Elems(il') = RemoveAt(e, q)]_vars

\* C24: on a list that satisfies the chain invariants, after a pop_before()
\* that removed the head of the list the recorded head is the slot the
\* ViewMut is bound to, and after a pop_after() that removed the tail the
\* recorded tail is that slot.
C24_ViewMutPopEnds ==
  [][(iop' \in {"vm.pop_before", "vm.pop_after"} /\ WellLinked(il)) =>
       /\ (iop' = "vm.pop_before"
             /\ slot(il, vm[1].view).prev = Some(il.ends[1][1]))
            => il'.ends[1][1] = vm[1].view
       /\ (iop' = "vm.pop_after"
             /\ slot(il, vm[1].view).next = Some(il.ends[1][2]))
            => il'.ends[1][2] = vm[1].view]_vars

\* C25: on a list that satisfies the chain invariants, delete() on a ViewMut
\* bound to position p returns the value at p and the chain afterwards is
\* the chain before without position p; the chain invariants hold afterwards:
\* the head is the successor of a deleted head, the tail the predecessor of a
\* deleted tail, and the list has no ends when its only element was deleted.
C25_ViewMutDelete ==
  [][(iop' = "vm.delete" /\ WellLinked(il)) =>
       LET e == Elems(il)
           p == PosOf(e, vm[1].view)
       IN /\ ~il'.panicked
          /\ p # 0
          /\ mret' = Some(e[p][2])
          /\ Elems(il') = RemoveAt(e, p)
          /\ WellLinked(il')
          /\ Len(e) = 1 => il'.ends = None
          /\ (p = 1 /\ Len(e) > 1) => il'.ends[1][1] = e[2][1]
          /\ (p = Len(e) /\ Len(e) > 1) =>
               il'.ends[1][2] = e[Len(e) - 1][1]]_vars

\* delete() was called on a ViewMut bound to the head of a list of three
\* elements and returned its value 2; the list is left with two elements 1.
C25_Witness ==
  /\ iop = "vm.delete" /\ mret = Some(2) /\ vm = None
  /\ vm0[1].view = 0
  /\ ValuesOf(Elems(il)) = <<1, 1>>
  /\ il.ends = Some(<<1, 2>>)

C32_GetNode ==
  [][op' = "get_node" =>
       LET position == arg'[1]
       IN IF ~usize_lt(position, len(list))
            THEN list' = Panic(list)
            ELSE /\ list' = list
                 /\ ret' # None
                 /\ ret' = walk_next(list, list.head, position)
                 /\ position < Len(ref)
                 /\ deref(list, ret'[1]).value = ref[position + 1]]_vars

Available(L) == Cardinality(Cached(L)) + (L.cap - nodes_len(L))

\* C34: reserve(n) and reserve_exact(n) count the slots of the free list
\* towards n: when the free list and the unused capacity together hold at
\* least n slots the capacity stays as it was, and after the call they hold
\* at least n slots, so that n insertions do not grow the buffer.
C34_ReserveCountsFree ==
  [][op' \in {"reserve", "reserve_exact"} =>
       /\ Available(list) >= arg'[1] => list'.cap = list.cap
       /\ Available(list') >= arg'[1]]_vars


\* C40: cached() returns the number of nodes on the free list, 0 when the
\* free list is empty, and Node::len() on the head of the free list returns
\* the number of nodes of the forward chain that starts there.
C40_CachedCounts ==
  [][(op' = "cached" /\ ~list'.panicked) =>
       /\ ret' = Some(Cardinality(Cached(list)))
       /\ list.cache # None =>
            Node_len(list, list.cache[1]) =
              Cardinality(chain(list, list.cache))]_vars


\* C39: when a push finds the free list empty and grows the buffer of the
\* Vec, on a list whose addresses all referred to slots of the buffer, then
\* afterwards head, tail, the head of the free list and the links of every
\* node still refer to slots of the buffer, and every node that was reached
\* from head is still reached from head and, by prev links, from tail.
C39_GrowthKeepsLinks ==
  [][(/\ op' \in {"push_front", "push_back"}
      /\ ~list'.panicked
      /\ list.cache = None
      /\ list'.cap > list.cap
      /\ Links(list) \subseteq Slots(list))
       => /\ Links(list') \subseteq Slots(list')
          /\ Cardinality(Active(list')) = Cardinality(Active(list)) + 1
          /\ walk_prev(list', list'.tail, Cardinality(Active(list)))
               = list'.head]_vars

Left(L) ==
  IF rng = None THEN <<>>
  ELSE LET el   == Elems(L)
           here == { el[k] : k \in 1..Len(el) }
       IN SelectSeq(SubSeq(orig, rng[1][1] + 1, rng[1][2] + 1),
                    LAMBDA e : e \in here)

\* C37: in any mix of next() and next_back() on a Drain over a..b, next()
\* yields and removes the first entry of the range still on the list and
\* next_back() the last one, so the values of next() are a prefix of the
\* range in order, those of next_back() a suffix in reverse order, and no
\* entry is yielded twice; once the range is used up both return None and
\* remove nothing.  After every step the list is the one before without
\* the yielded entry, with its ends and links in order.
C37_DrainBothEnds ==
  [][(iop' \in {"next", "next_back"} /\ WellLinked(il)) =>
       LET left == Left(il)
           e    == IF iop' = "next" THEN left[1] ELSE left[Len(left)]
       IN IF left = <<>>
            THEN out' = out /\ il' = il
            ELSE /\ out' = Append(out, e[2])
                 /\ Elems(il') = SelectSeq(Elems(il), LAMBDA x : x # e)
                 /\ Left(il') = IF iop' = "next" THEN Tail(left)
                                ELSE SubSeq(left, 1, Len(left) - 1)
                 /\ WellLinked(il')]_vars

\* A Drain over the whole of a list of three entries took the first entry
\* with next(), the last with next_back() and then the second with next().
C37_Witness ==
  /\ dr = Some(None) /\ iop = "next" /\ dirs = {"next", "next_back"}
  /\ Len(orig) = 3 /\ rng = Some(<<0, 2>>)
  /\ out = <<orig[1][2], orig[3][2], orig[2][2]>>
  /\ orig[1][2] # orig[2][2]
  /\ il.ends = None

\* C38: Drain, DrainFilter and Iter (IterMut has the code of Iter) are
\* fused and end: a next() or next_back() on an iterator that is used up
\* returns None, leaves it used up and leaves the list as it was; a step
\* that returns None leaves the iterator used up and removes nothing; and
\* no iterator yields more entries than the range it was made over holds.
C38_Fused ==
  [][/\ iop' \in {"next", "next_back"} =>
          /\ dr = Some(None) => (out' = out /\ il' = il /\ dr' = dr)
          /\ out' = out => (dr' = Some(None) /\ il'.len = il.len)
          /\ Len(out') <= IF rng = None THEN 0
                          ELSE rng[1][2] - rng[1][1] + 1
     /\ iop' \in {"filter.next", "filter.next_back"} =>
          /\ df = Some(None) => (out' = out /\ il' = il /\ df' = df)
          /\ out' = out =>
               (df' = Some(None) /\ Len(Elems(il')) = Len(Elems(il)))
          /\ Len(out') <= Len(orig)
     /\ iop' \in {"iter.next", "iter.next_back"} =>
          /\ it = Some(None) => (tret' = None /\ it' = it)
          /\ tret' = None => it' = Some(None)
          /\ Len(out') <= Len(orig)
          /\ il' = il]_vars

\* A Drain over two of three entries returned None at its third step and
\* was then stepped again from either end.
C38_Witness ==
  /\ dr = Some(None) /\ rng = Some(<<0, 1>>) /\ Len(orig) = 3
  /\ Len(out) = 2 /\ il.len = 1
  /\ iop \in {"next", "next_back"}
  /\ dirs = {"next", "next_back"}


\* ------------------------------------------------------------------------
\* Claims about round trips on a ViewMut
\* ------------------------------------------------------------------------
\* C36: when pop_before() on a ViewMut of a list with its ends and links in
\* order has returned a value and insert_before is called next with that
\* value, the list holds the entries it held before the pop, with its ends
\* and links in order, the ViewMut is at the slot it was at, and prev()
\* from there succeeds and reaches the value; the same for pop_after()
\* followed by insert_after() and next().
C36_PopInsertRoundTrip ==
  [][(/\ \/ iop = "vm.pop_before" /\ iop' = "vm.insert_before"
         \/ iop = "vm.pop_after" /\ iop' = "vm.insert_after"
      /\ mret # None /\ mret' = mret
      /\ WellLinked(il0)
      /\ ~il'.panicked)
       => LET step == IF iop' = "vm.insert_before"
                        THEN ViewMut_prev(il', vm'[1])
                        ELSE ViewMut_next(il', vm'[1])
          IN /\ ValuesOf(Elems(il')) = ValuesOf(Elems(il0))
             /\ WellLinked(il')
             /\ vm' = vm0
             /\ ViewMut_deref(il', vm'[1]) = ViewMut_deref(il0, vm0[1])
             /\ step.ret = Ok
             /\ ViewMut_deref(il', step.self) = mret[1]]_vars

\* pop_before() took the head off a list of two different entries and
\* insert_before put it back.
C36_Witness ==
  /\ iop = "vm.insert_before" /\ mcalls = 2 /\ ~il.panicked
  /\ Len(Elems(il)) = 2 /\ Elems(il)[1][2] # Elems(il)[2][2]
  /\ vm = Some([view |-> Elems(il)[2][1]])
  /\ Len(il.nodes) = 2 /\ il0.len = 1
  /\ il0.cache = Some(Elems(il)[1][1])
  /\ mret = Some(Elems(il)[1][2])

====
